---- MODULE Spec2Model ----
(***************************************************************************)
(* The annotation-driven pruning engine of the GO graph cleaner:           *)
(* map_uniprot_to_graph, get_leaves_by_ontology, mark_lowest_nodes,        *)
(* get_clean_graph / prune_layers_without_uniprot, clean_all_layers /      *)
(* clean_graph_layer / process_leaves, and the repair loop of              *)
(* clean_ontology_graph with connect_pivot.                                *)
(*                                                                         *)
(* Edges point from the more specific term (child) to the more general one *)
(* (parent).  A term graph here has no parallel edges; wherever the code   *)
(* iterates over the nodes or the adjacency of a graph the model iterates  *)
(* in ascending node number (the insertion order of the input).            *)
(***************************************************************************)
EXTENDS Integers, Sequences, FiniteSets, TLC

\* Number of terms of the input graphs of Spec.
MaxNode == 4
\* Number of terms of the input graphs of SpecSingle.
MaxNodeSingle == 5
\* Number of terms of the input graphs of SpecFair.
MaxNodeFair == 3
\* Number of terms of the input graphs of SpecMapper.
MaxNodeMapper == 3
\* Saturation value of the recursion depth counter of clean_ontology_graph.
MaxDepth == 2
\* SpecMarker: number of terms
MaxNodeMarker == 4
\* SpecRepair: number of terms
MaxNodeRepair == 6

Nodes == 1..MaxNode
\* The node "new_connecting_node" of connect_pivot.
Conn == 0
\* External identifiers: the keys of uniprot_to_go, in the order of the dict.
UniprotIdList == <<"P05067", "Q9Y6K9">>
UniprotIds == {UniprotIdList[i] : i \in 1..Len(UniprotIdList)}
\* The key of an annotation map with one identifier.
OneId == {UniprotIdList[1]}

VARIABLES
    pc,             \* position of the orchestrator
    depth,          \* number of re-entries of clean_ontology_graph (saturating)
    uniprot_to_go,  \* input: identifier -> set of terms
    pivots,         \* the list process_cleaning holds and returns
    ontologies,     \* the list of the current call of clean_ontology_graph
    graph,          \* the term graph: [nodes, edges], edge = <<child, parent>>
    UniprotID,      \* node attribute 'UniprotID' (domain: nodes that have it)
    Layer_of,       \* Layer_of[o]: node attribute 'Layer_of<o>' (domain: nodes that have it)
    selected_nodes, \* trace returned by map_uniprot_to_graph
    max_dst,        \* ontology -> max layer
    leaves,         \* ontology -> list of leaves
    subgraphs,      \* ontology -> set of reachable nodes
    clean_graphs,   \* ontology -> [nodes, edges], the working copy
    oi,             \* index into ontologies of the loop in progress
    todo,           \* rest of the node list a for loop iterates over
    dst,            \* local dst of the pruner in progress
    removable,      \* local list of clean_graph_layer / process_leaves
    node,           \* loop variable of mark_lowest_nodes (0: none yet)
    farthest_node,  \* local of mark_lowest_nodes (0: none yet)
    updated,        \* local flag of process_leaves
    raised,         \* <<DFSnode, BFSnode>> of the exception in flight, or <<>>
    run,            \* number of the call of process_cleaning: 1 or 2
    returned,       \* the cleaned graphs that the first call returned
    results,        \* node -> result of the worker of uniprot_id_in_layer that has finished
    output_graphs,  \* key of clean_graphs -> the graph that generate_graphviz expanded
    rpc,            \* position of the retrieval function in progress
    response,       \* the response to the last request of the retrieval function
    sent,           \* number of requests that the retrieval function has sent
    retry_cnt,      \* local retry_cnt of check_mapping_status
    attempt,        \* loop variable of poll_job / submit_elm
    now,            \* time.time() - start_time, in ticks
    outcome,        \* how the retrieval function ended ("none": it has not)
    max_retries,    \* parameter of check_mapping_status
    poll_interval,  \* parameter of check_mapping_status
    max_wait_time,  \* parameter of check_mapping_status
    max_attempts,   \* parameter of poll_job / submit_elm
    interval,       \* parameter of poll_job
    delay           \* parameter of submit_elm

vars == <<pc, depth, uniprot_to_go, pivots, ontologies, graph, UniprotID, Layer_of,
          selected_nodes, max_dst, leaves, subgraphs, clean_graphs, oi, todo, dst,
          removable, node, farthest_node, updated, raised, run, returned, results,
          output_graphs, rpc, response, sent, retry_cnt, attempt, now, outcome,
          max_retries, poll_interval, max_wait_time, max_attempts, interval, delay>>

----------------------------------------------------------------------------
\* Lists

InSeq(x, s) == \E i \in 1..Len(s) : s[i] = x
SeqSet(s) == {s[i] : i \in 1..Len(s)}
Front(s) == SubSeq(s, 1, Len(s) - 1)
Last(s) == s[Len(s)]

\* list.remove(x): drops the first occurrence of x
ListRemove(s, x) ==
    LET i == CHOOSE k \in 1..Len(s) : s[k] = x /\ \A j \in 1..(k-1) : s[j] # x
    IN  SubSeq(s, 1, i - 1) \o SubSeq(s, i + 1, Len(s))

RECURSIVE SortedSeq(_)
\* the elements of a set of numbers as an ascending list
SortedSeq(S) ==
    IF S = {} THEN <<>>
    ELSE LET m == CHOOSE x \in S : \A y \in S : x <= y
         IN  <<m>> \o SortedSeq(S \ {m})

----------------------------------------------------------------------------
\* Graphs (networkx views)

EmptyFn == [x \in {} |-> 0]
EmptyGraph == [nodes |-> {}, edges |-> {}]
\* no request has been sent yet
NoResponse == [err |-> FALSE, status_code |-> 0, body |-> ""]

\* graph.neighbors(n): successors of n, the parents
Parents(g, n) == {e[2] : e \in {f \in g.edges : f[1] = n}}
\* graph.reverse().neighbors(n): predecessors of n, the children
Children(g, n) == {e[1] : e \in {f \in g.edges : f[2] = n}}
\* graph.in_degree(n)
InDegree(g, n) == Cardinality({f \in g.edges : f[2] = n})
\* graph.remove_node(n)
RemoveNode(g, n) ==
    [nodes |-> g.nodes \ {n},
     edges |-> {e \in g.edges : e[1] # n /\ e[2] # n}]

RECURSIVE ReachUp(_, _)
\* nodes reachable from the set S along edges (S included)
ReachUp(g, S) ==
    LET T == S \cup UNION {Parents(g, n) : n \in S}
    IN  IF T = S THEN S ELSE ReachUp(g, T)

\* annotation values
Ids(l) == [kind |-> "ids", ids |-> l]
Lowest == [kind |-> "lowest", ids |-> <<>>]
Pruchozi == [kind |-> "pruchozi", ids |-> <<>>]
HasUniprot(n) == n \in DOMAIN UniprotID
IsReal(n) == HasUniprot(n) /\ UniprotID[n].kind = "ids"
IsLowest(n) == HasUniprot(n) /\ UniprotID[n] = Lowest
IsPruchozi(n) == HasUniprot(n) /\ UniprotID[n] = Pruchozi
HasLayer(o, n) == o \in DOMAIN Layer_of /\ n \in DOMAIN Layer_of[o]

----------------------------------------------------------------------------
\* Inputs

\* acyclic graphs on the terms 1..n: a child has a greater number than its parents,
\* and every term from `first` on has a parent
InputGraphs(n, first) ==
    {g \in [nodes : {1..n}, edges : SUBSET {e \in (1..n) \X (1..n) : e[1] > e[2]}] :
        \A x \in first..n : Parents(g, x) # {}}
\* the input graphs whose nodes were added in any order: the node order, which is
\* the order of graph.nodes(), need not follow the edges; term 1 is the root and
\* term 2 the only other term that may have no parent
InputGraphsAnyOrder(n) ==
    {g \in [nodes : {1..n}, edges : SUBSET {e \in (2..n) \X (1..n) : e[1] # e[2]}] :
        /\ \A x \in 3..n : Parents(g, x) # {}
        /\ \A x \in 2..n : x \notin ReachUp(g, Parents(g, x))}
\* the input graphs of two roots, terms 1 and 2, in which every other term has
\* one to three parents; the second root has no parent or is a child of the first
InputGraphsTwoRoots(n) ==
    {g \in [nodes : {1..n}, edges : SUBSET {e \in (2..n) \X (1..n) : e[1] > e[2]}] :
        /\ \A x \in 3..(n - 1) : Cardinality(Parents(g, x)) \in {1, 2}
        /\ Cardinality(Parents(g, n)) \in {1, 2, 3}}
\* term 1 is a category root; term 2 is one too, or a root outside the categories,
\* when it has no parent
InputPivots(g) == IF Parents(g, 2) = {} THEN {<<1>>, <<1, 2>>} ELSE {<<1>>}
\* at most one node comes with the "pruchozi" annotation already set
InputPruchozi == {EmptyFn} \cup {[x \in {n} |-> Pruchozi] : n \in Nodes}

Start ==
    /\ ontologies = pivots
    /\ Layer_of = EmptyFn
    /\ selected_nodes = EmptyFn
    /\ max_dst = EmptyFn
    /\ leaves = EmptyFn
    /\ subgraphs = EmptyFn
    /\ clean_graphs = EmptyFn
    /\ pc = "map"
    /\ depth = 0
    /\ oi = 0
    /\ todo = <<>>
    /\ dst = 0
    /\ removable = <<>>
    /\ node = 0
    /\ farthest_node = 0
    /\ updated = FALSE
    /\ raised = <<>>
    /\ run = 1
    /\ returned = EmptyFn
    /\ results = EmptyFn
    /\ output_graphs = EmptyFn
    /\ rpc = "idle"
    /\ response = NoResponse
    /\ sent = 0
    /\ retry_cnt = 0
    /\ attempt = 0
    /\ now = 0
    /\ outcome = "none"
    /\ max_retries = 0
    /\ poll_interval = 0
    /\ max_wait_time = 0
    /\ max_attempts = 0
    /\ interval = 0
    /\ delay = 0

\* Spec: up to two roots, any set of annotated terms, at most one "pruchozi" node
Init ==
    /\ graph \in InputGraphs(MaxNode, 3)
    /\ pivots \in InputPivots(graph)
    /\ uniprot_to_go \in [OneId -> SUBSET Nodes]
    /\ UniprotID \in InputPruchozi
    /\ Start

\* SpecSingle: one root, every identifier with at most one term, no "pruchozi" node
InitSingle ==
    /\ graph \in InputGraphs(MaxNodeSingle, 2)
    /\ pivots = <<1>>
    /\ uniprot_to_go \in [OneId -> {{}} \cup {{n} : n \in 1..MaxNodeSingle}]
    /\ UniprotID = EmptyFn
    /\ Start

\* SpecFair: up to two roots, the identifier with one term, no "pruchozi" node
InitFair ==
    /\ graph \in InputGraphs(MaxNodeFair, 3)
    /\ pivots \in InputPivots(graph)
    /\ uniprot_to_go \in [OneId -> {{n} : n \in 1..MaxNodeFair}]
    /\ UniprotID = EmptyFn
    /\ Start

\* SpecMapper: one root, two identifiers, each with any set of terms, one of which
\* is not in the graph; at most one "pruchozi" node
InitMapper ==
    /\ graph \in InputGraphs(MaxNodeMapper, 3)
    /\ pivots = <<1>>
    /\ uniprot_to_go \in [UniprotIds -> SUBSET (1..(MaxNodeMapper + 1))]
    /\ UniprotID \in {EmptyFn} \cup {[x \in {n} |-> Pruchozi] : n \in 1..MaxNodeMapper}
    /\ Start

\* SpecMarker: one root, nodes in any order, the identifier with one term, at most
\* one "pruchozi" node
InitMarker ==
    /\ graph \in InputGraphsAnyOrder(MaxNodeMarker)
    /\ pivots = <<1>>
    /\ uniprot_to_go \in [OneId -> {{n} : n \in 1..MaxNodeMarker}]
    /\ UniprotID \in {EmptyFn} \cup {[x \in {n} |-> Pruchozi] : n \in 1..MaxNodeMarker}
    /\ Start

\* SpecRepair: two roots, the identifier with one or both of the last two terms,
\* no "pruchozi" node
InitRepair ==
    /\ graph \in InputGraphsTwoRoots(MaxNodeRepair)
    /\ pivots = <<1, 2>>
    /\ uniprot_to_go \in [OneId -> {{MaxNodeRepair}, {MaxNodeRepair - 1, MaxNodeRepair}}]
    /\ UniprotID = EmptyFn
    /\ Start

----------------------------------------------------------------------------
\* Annotation Mapper (add_uniprot_to_node.py)

\* find_matching_nodes without the test that the term is a node of the graph
find_matching_nodesAllTerms(g, u2g, uniprot_id) == SortedSeq(u2g[uniprot_id])

\* find_matching_nodes: the graph nodes among the terms of uniprot_id, in node order
find_matching_nodes(g, u2g, uniprot_id) ==
    SortedSeq({n \in g.nodes : n \in u2g[uniprot_id]})

\* first loop of map_uniprot_to_graph: only identifiers with a match get a key
SelectedNodes(g, u2g) ==
    LET hit == {u \in DOMAIN u2g : find_matching_nodes(g, u2g, u) # <<>>}
    IN  [u \in hit |-> find_matching_nodes(g, u2g, u)]

\* the pairs <<uniprot_id, node>> of the second loop, in the order it visits them
RECURSIVE MapPairs(_, _)
MapPairs(sel, i) ==
    IF i > Len(UniprotIdList) THEN <<>>
    ELSE LET u == UniprotIdList[i]
             ns == IF u \in DOMAIN sel THEN sel[u] ELSE <<>>
         IN  [k \in 1..Len(ns) |-> <<u, ns[k]>>] \o MapPairs(sel, i + 1)

RECURSIVE MapAttachAlwaysAppend(_, _)
\* MapAttach without the test of line 51: the identifier is appended every time
MapAttachAlwaysAppend(attr, pairs) ==
    IF pairs = <<>> THEN [attr |-> attr, crashed |-> FALSE]
    ELSE LET u == Head(pairs)[1]
             n == Head(pairs)[2]
         IN  IF n \notin DOMAIN attr
             THEN MapAttachAlwaysAppend([x \in DOMAIN attr \cup {n} |->
                                IF x = n THEN Ids(<<u>>) ELSE attr[x]], Tail(pairs))
             ELSE IF attr[n].kind # "ids"
             THEN [attr |-> attr, crashed |-> TRUE]
             ELSE MapAttachAlwaysAppend([attr EXCEPT ![n] = Ids(Append(attr[n].ids, u))],
                                        Tail(pairs))

\* second loop of map_uniprot_to_graph; a string annotation has no append:
\* the loop ends there with an AttributeError
RECURSIVE MapAttach(_, _)
MapAttach(attr, pairs) ==
    IF pairs = <<>> THEN [attr |-> attr, crashed |-> FALSE]
    ELSE LET u == Head(pairs)[1]
             n == Head(pairs)[2]
         IN  IF n \notin DOMAIN attr
             THEN MapAttach([x \in DOMAIN attr \cup {n} |->
                                IF x = n THEN Ids(<<u>>) ELSE attr[x]], Tail(pairs))
             ELSE IF attr[n].kind # "ids"
             THEN [attr |-> attr, crashed |-> TRUE]
             ELSE IF ~InSeq(u, attr[n].ids)
             THEN MapAttach([attr EXCEPT ![n] = Ids(Append(attr[n].ids, u))], Tail(pairs))
             ELSE MapAttach(attr, Tail(pairs))

map_uniprot_to_graph ==
    /\ pc = "map"
    /\ LET sel == SelectedNodes(graph, uniprot_to_go)
           res == MapAttach(UniprotID, MapPairs(sel, 1))
       IN  /\ selected_nodes' = sel
           /\ UniprotID' = res.attr
           /\ pc' = IF res.crashed THEN "AttributeError" ELSE "layers"
    /\ UNCHANGED <<output_graphs, rpc, response, sent, retry_cnt, attempt, now, outcome,
                   max_retries, poll_interval, max_wait_time, max_attempts, interval, delay>>
    /\ UNCHANGED <<run, returned, results, depth, uniprot_to_go, pivots, ontologies, graph, Layer_of, max_dst,
                   leaves, subgraphs, clean_graphs, oi, todo, dst, removable, updated,
                   raised, node, farthest_node>>

\* map_uniprot_to_graph called once more on the graph it returned, with the same
\* annotation map
map_uniprot_to_graph_again ==
    /\ pc = "layers"
    /\ LET sel == SelectedNodes(graph, uniprot_to_go)
           res == MapAttach(UniprotID, MapPairs(sel, 1))
       IN  /\ selected_nodes' = sel
           /\ UniprotID' = res.attr
           /\ pc' = IF res.crashed THEN "AttributeError" ELSE "mapped"
    /\ UNCHANGED <<output_graphs, rpc, response, sent, retry_cnt, attempt, now, outcome,
                   max_retries, poll_interval, max_wait_time, max_attempts, interval, delay>>
    /\ UNCHANGED <<run, returned, results, depth, uniprot_to_go, pivots, ontologies, graph, Layer_of, max_dst,
                   leaves, subgraphs, clean_graphs, oi, todo, dst, removable, updated,
                   raised, node, farthest_node>>

----------------------------------------------------------------------------
\* Layering Oracle (add_layers_to_node.get_leaves_by_ontology)

RECURSIVE Bfs(_, _, _, _)
\* breadth-first distances from the root along child edges
Bfs(g, frontier, seen, d) ==
    IF frontier = {} THEN [n \in {} |-> 0]
    ELSE LET nxt == (UNION {Children(g, n) : n \in frontier}) \ (seen \cup frontier)
             rest == Bfs(g, nxt, seen \cup frontier, d + 1)
         IN  [n \in frontier \cup DOMAIN rest |-> IF n \in frontier THEN d ELSE rest[n]]

BfsLayers(g, o) == Bfs(g, {o}, {}, 0)
MaxOf(S) == CHOOSE x \in S : \A y \in S : y <= x

get_leaves_by_ontology ==
    /\ pc = "layers"
    /\ LET onts == SeqSet(ontologies)
           lay == [o \in onts |-> BfsLayers(graph, o)]
       IN  /\ Layer_of' = [o \in DOMAIN Layer_of \cup onts |->
                               IF o \in onts THEN lay[o] ELSE Layer_of[o]]
           /\ subgraphs' = [o \in onts |-> DOMAIN lay[o]]
           /\ max_dst' = [o \in onts |-> MaxOf({lay[o][n] : n \in DOMAIN lay[o]})]
           /\ leaves' = [o \in onts |->
                            SortedSeq({n \in DOMAIN lay[o] : Children(graph, n) = {}})]
    /\ pc' = "mark"
    /\ oi' = 1
    /\ todo' = SortedSeq(graph.nodes)
    /\ node' = 0
    /\ farthest_node' = 0
    /\ UNCHANGED <<output_graphs, rpc, response, sent, retry_cnt, attempt, now, outcome,
                   max_retries, poll_interval, max_wait_time, max_attempts, interval, delay>>
    /\ UNCHANGED <<run, returned, results, depth, uniprot_to_go, pivots, ontologies, graph, UniprotID,
                   selected_nodes, clean_graphs, dst, removable, updated, raised>>

----------------------------------------------------------------------------
\* Boundary Marker (find_nodes.py)

RECURSIVE EdgeDfs(_, _, _, _)
\* networkx.edge_dfs(graph, source): the targets of the edges in the order it yields
\* them, each node at its first appearance
EdgeDfs(g, stack, visited, out) ==
    IF stack = <<>> THEN out
    ELSE LET nxt == Parents(g, Head(stack)) \ visited
         IN  IF nxt = {} THEN EdgeDfs(g, Tail(stack), visited, out)
             ELSE LET p == CHOOSE x \in nxt : \A y \in nxt : x <= y
                  IN  EdgeDfs(g, <<p>> \o stack, visited \cup {p}, Append(out, p))

RECURSIVE FarthestLoopNoRaise(_, _, _)
\* FarthestLoop that skips a target without the layer attribute
FarthestLoopNoRaise(o, targets, far) ==
    IF targets = <<>> THEN [raised |-> FALSE, node |-> far]
    ELSE LET target_node == Head(targets)
         IN  IF HasLayer(o, target_node) /\ Layer_of[o][target_node] > Layer_of[o][far]
             THEN FarthestLoopNoRaise(o, Tail(targets), target_node)
             ELSE FarthestLoopNoRaise(o, Tail(targets), far)

RECURSIVE FarthestLoopLast(_, _, _)
\* FarthestLoop that also moves to a target of the same layer
FarthestLoopLast(o, targets, far) ==
    IF targets = <<>> THEN [raised |-> FALSE, node |-> far]
    ELSE LET target_node == Head(targets)
         IN  IF ~HasLayer(o, target_node)
             THEN [raised |-> TRUE, node |-> far]
             ELSE IF Layer_of[o][target_node] >= Layer_of[o][far]
             THEN FarthestLoopLast(o, Tail(targets), target_node)
             ELSE FarthestLoopLast(o, Tail(targets), far)

RECURSIVE FarthestLoop(_, _, _)
\* the loop of find_farthest_node over the targets; raises at the first target
\* without the layer attribute
FarthestLoop(o, targets, far) ==
    IF targets = <<>> THEN [raised |-> FALSE, node |-> far]
    ELSE LET target_node == Head(targets)
         IN  IF ~HasLayer(o, target_node)
             THEN [raised |-> TRUE, node |-> far]
             ELSE IF Layer_of[o][target_node] > Layer_of[o][far]
             THEN FarthestLoop(o, Tail(targets), target_node)
             ELSE FarthestLoop(o, Tail(targets), far)

find_farthest_node(o, start_node) ==
    FarthestLoop(o, EdgeDfs(graph, <<start_node>>, {start_node}, <<>>), start_node)

\* IsStart without the test of the layer attribute of the ontology
IsStartAnyCategory(o, n) == HasUniprot(n) /\ ~IsPruchozi(n)

\* IsStart that takes a list of identifiers only
IsStartRealOnly(o, n) == HasLayer(o, n) /\ IsReal(n)

\* condition of line 70: the node has the layer of the ontology and an annotation
\* other than "pruchozi"
IsStart(o, n) == HasLayer(o, n) /\ HasUniprot(n) /\ ~IsPruchozi(n)

\* MarkLowest without the test of line 73
MarkLowestAlways(attr, n) ==
    [x \in DOMAIN attr \cup {n} |-> IF x = n THEN Lowest ELSE attr[x]]

\* lines 73-74: only a node without 'UniprotID' becomes "lowest"
MarkLowest(attr, n) ==
    IF n \notin DOMAIN attr
    THEN [x \in DOMAIN attr \cup {n} |-> IF x = n THEN Lowest ELSE attr[x]]
    ELSE attr

\* one iteration of the inner loop of mark_lowest_nodes that passes the condition
mark_lowest_nodes ==
    /\ pc = "mark"
    /\ \E i \in 1..Len(todo) :
        /\ IsStart(ontologies[oi], todo[i])
        /\ \A j \in 1..(i-1) : ~IsStart(ontologies[oi], todo[j])
        /\ node' = todo[i]
        /\ LET r == find_farthest_node(ontologies[oi], todo[i])
           IN  IF r.raised
               THEN /\ pc' = "except"
                    /\ raised' = <<todo[i], ontologies[oi]>>
                    /\ UNCHANGED <<UniprotID, todo, farthest_node>>
               ELSE /\ farthest_node' = r.node
                    /\ UniprotID' = MarkLowest(UniprotID, r.node)
                    /\ todo' = SubSeq(todo, i + 1, Len(todo))
                    /\ UNCHANGED <<pc, raised>>
    /\ UNCHANGED <<output_graphs, rpc, response, sent, retry_cnt, attempt, now, outcome,
                   max_retries, poll_interval, max_wait_time, max_attempts, interval, delay>>
    /\ UNCHANGED <<run, returned, results, depth, uniprot_to_go, pivots, ontologies, graph, Layer_of,
                   selected_nodes, max_dst, leaves, subgraphs, clean_graphs, oi, dst,
                   removable, updated>>

\* the inner loop runs out: next ontology, or mark_lowest_nodes returns
mark_lowest_next ==
    /\ pc = "mark"
    /\ \A i \in 1..Len(todo) : ~IsStart(ontologies[oi], todo[i])
    /\ IF oi < Len(ontologies)
       THEN /\ oi' = oi + 1
            /\ todo' = SortedSeq(graph.nodes)
            /\ pc' = pc
       ELSE /\ oi' = 1
            /\ todo' = <<>>
            /\ pc' = "prune_layers"
    /\ UNCHANGED <<output_graphs, rpc, response, sent, retry_cnt, attempt, now, outcome,
                   max_retries, poll_interval, max_wait_time, max_attempts, interval, delay>>
    /\ UNCHANGED <<run, returned, results, depth, uniprot_to_go, pivots, ontologies, graph, UniprotID, Layer_of,
                   selected_nodes, max_dst, leaves, subgraphs, clean_graphs, dst,
                   removable, updated, raised, node, farthest_node>>

\* connect_edges with the edges from the connector to the pivots
connect_edgesReversed(pivot_list) == {<<Conn, pivot_list[i]>> : i \in 1..Len(pivot_list)}

\* connect_edges that joins the first pivot only
connect_edgesFirstOnly(pivot_list) == {<<pivot_list[1], Conn>>}

\* lines 139-140 of connect_pivot: one edge from each pivot to the connector
connect_edges(pivot_list) == {<<pivot_list[i], Conn>> : i \in 1..Len(pivot_list)}

\* connect_pivot, called by the except clause of clean_ontology_graph, which then
\* calls clean_ontology_graph again
connect_pivot ==
    /\ pc = "except"
    /\ graph' = [nodes |-> graph.nodes \cup {Conn},
                 edges |-> graph.edges \cup connect_edges(ontologies)]
    /\ ontologies' = <<Conn>>
    /\ depth' = IF depth < MaxDepth THEN depth + 1 ELSE depth
    /\ pc' = "map"
    /\ raised' = <<>>
    /\ selected_nodes' = EmptyFn
    /\ max_dst' = EmptyFn
    /\ leaves' = EmptyFn
    /\ subgraphs' = EmptyFn
    /\ oi' = 0
    /\ todo' = <<>>
    /\ UNCHANGED <<output_graphs, rpc, response, sent, retry_cnt, attempt, now, outcome,
                   max_retries, poll_interval, max_wait_time, max_attempts, interval, delay>>
    /\ UNCHANGED <<run, returned, results, uniprot_to_go, pivots, UniprotID, Layer_of, clean_graphs, dst,
                   removable, updated, node, farthest_node>>

----------------------------------------------------------------------------
\* Outer-Layer Pruner (prune_layers.py)

\* the first ontology of the list, whichever ontology the loop is at
CurFirstOntology == ontologies[1]

\* the ontology the loops over the ontologies are at
Cur == ontologies[oi]

\* find_nodes_at_distance that finds no node at distance 0
find_nodes_at_distanceBelowRoot(o, d, nodelist, g) ==
    SelectSeq(nodelist, LAMBDA n : /\ n \in g.nodes /\ HasLayer(o, n)
                                   /\ Layer_of[o][n] = d /\ d > 0)

\* find_nodes_at_distance over a list of nodes: keeps the order of the list
find_nodes_at_distance(o, d, nodelist, g) ==
    SelectSeq(nodelist, LAMBDA n : n \in g.nodes /\ HasLayer(o, n) /\ Layer_of[o][n] = d)

\* has_uniprot_id that counts a list of identifiers only
has_uniprot_idRealOnly(n) == IsReal(n)

has_uniprot_id(n) == HasUniprot(n)
\* uniprot_id_in_layer that looks at the first node of the layer only
uniprot_id_in_layerFirstOnly(nodelist) == nodelist # <<>> /\ has_uniprot_id(nodelist[1])

\* uniprot_id_in_layer that finds no annotation in any layer
uniprot_id_in_layerNever(nodelist) == FALSE

uniprot_id_in_layer(nodelist) == \E i \in 1..Len(nodelist) : has_uniprot_id(nodelist[i])

\* no_lower_layer_edge that accepts every node
no_lower_layer_edgeAlways(n, o, g) == TRUE

\* True when no child of the node has a layer lower than or equal to the node's
no_lower_layer_edge(n, o, g) ==
    \A neighbor \in Children(g, n) : ~(Layer_of[o][n] >= Layer_of[o][neighbor])

RECURSIVE AddLeavesLoop(_, _, _, _)
\* one for loop of add_leaves over a list of neighbours
AddLeavesLoop(lv, nbrs, o, g) ==
    IF nbrs = <<>> THEN lv
    ELSE LET neighbor == Head(nbrs)
         IN  IF ~InSeq(neighbor, lv) /\ no_lower_layer_edge(neighbor, o, g)
             THEN AddLeavesLoop(Append(lv, neighbor), Tail(nbrs), o, g)
             ELSE AddLeavesLoop(lv, Tail(nbrs), o, g)

add_leaves(lv, n, o, g) ==
    AddLeavesLoop(AddLeavesLoop(lv, SortedSeq(Parents(g, n)), o, g),
                  SortedSeq(Children(g, n)), o, g)

\* the working copy of get_clean_graph: the edges of the induced subgraph and the
\* nodes they touch
CleanCopy(g, sub) ==
    LET es == {e \in g.edges : e[1] \in sub /\ e[2] \in sub}
    IN  [nodes |-> {e[1] : e \in es} \cup {e[2] : e \in es}, edges |-> es]

\* one iteration of the loop of get_clean_graph up to the call of
\* prune_layers_without_uniprot and its line 77
get_clean_graph ==
    /\ pc = "prune_layers"
    /\ clean_graphs' = [o \in DOMAIN clean_graphs \cup {Cur} |->
                           IF o = Cur THEN CleanCopy(graph, subgraphs[Cur])
                           ELSE clean_graphs[o]]
    /\ dst' = max_dst[Cur]
    /\ pc' = "layer_scan"
    /\ UNCHANGED <<output_graphs, rpc, response, sent, retry_cnt, attempt, now, outcome,
                   max_retries, poll_interval, max_wait_time, max_attempts, interval, delay>>
    /\ UNCHANGED <<run, returned, results, depth, uniprot_to_go, pivots, ontologies, graph, UniprotID, Layer_of,
                   selected_nodes, max_dst, leaves, subgraphs, oi, todo, removable,
                   updated, raised, node, farthest_node>>

\* lines 78-83 of prune_layers_without_uniprot: the loop test and the scan of a layer
prune_layers_scan ==
    /\ pc = "layer_scan"
    /\ LET nodelist == find_nodes_at_distance(Cur, dst, SortedSeq(clean_graphs[Cur].nodes),
                                              clean_graphs[Cur])
           stop == dst >= 0 /\ uniprot_id_in_layer(nodelist)
           return == dst < 0 \/ stop
       IN  /\ max_dst' = IF stop THEN [max_dst EXCEPT ![Cur] = dst] ELSE max_dst
           /\ IF return
              THEN /\ todo' = <<>>
                   /\ dst' = dst
                   /\ IF oi < Len(ontologies)
                      THEN oi' = oi + 1 /\ pc' = "prune_layers"
                      ELSE oi' = 1 /\ pc' = "prune_leafs"
              ELSE /\ todo' = nodelist
                   /\ oi' = oi
                   /\ IF nodelist = <<>>
                      THEN dst' = dst - 1 /\ pc' = pc
                      ELSE dst' = dst /\ pc' = "layer_remove"
    /\ UNCHANGED <<output_graphs, rpc, response, sent, retry_cnt, attempt, now, outcome,
                   max_retries, poll_interval, max_wait_time, max_attempts, interval, delay>>
    /\ UNCHANGED <<run, returned, results, depth, uniprot_to_go, pivots, ontologies, graph, UniprotID, Layer_of,
                   selected_nodes, leaves, subgraphs, clean_graphs, removable, updated,
                   raised, node, farthest_node>>

\* the scan of a layer with the worker threads of uniprot_id_in_layer told apart:
\* line 78, line 79 and the submission of one has_uniprot_id call per node
prune_layers_submit ==
    /\ pc = "layer_scan"
    /\ IF dst < 0
       THEN /\ todo' = <<>>
            /\ IF oi < Len(ontologies)
               THEN oi' = oi + 1 /\ pc' = "prune_layers"
               ELSE oi' = 1 /\ pc' = "prune_leafs"
       ELSE /\ todo' = find_nodes_at_distance(Cur, dst, SortedSeq(clean_graphs[Cur].nodes),
                                              clean_graphs[Cur])
            /\ oi' = oi
            /\ pc' = "layer_workers"
    /\ results' = EmptyFn
    /\ UNCHANGED <<output_graphs, rpc, response, sent, retry_cnt, attempt, now, outcome,
                   max_retries, poll_interval, max_wait_time, max_attempts, interval, delay>>
    /\ UNCHANGED <<run, returned, depth, uniprot_to_go, pivots, ontologies, graph, UniprotID,
                   Layer_of, selected_nodes, max_dst, leaves, subgraphs, clean_graphs, dst,
                   removable, updated, raised, node, farthest_node>>

\* one worker thread runs has_uniprot_id for its node; the workers finish in any order
has_uniprot_id_worker ==
    /\ pc = "layer_workers"
    /\ \E n \in SeqSet(todo) \ DOMAIN results :
           results' = [x \in DOMAIN results \cup {n} |->
                          IF x = n THEN has_uniprot_id(n) ELSE results[x]]
    /\ UNCHANGED <<output_graphs, rpc, response, sent, retry_cnt, attempt, now, outcome,
                   max_retries, poll_interval, max_wait_time, max_attempts, interval, delay>>
    /\ UNCHANGED <<run, returned, pc, depth, uniprot_to_go, pivots, ontologies, graph, UniprotID,
                   Layer_of, selected_nodes, max_dst, leaves, subgraphs, clean_graphs, oi,
                   todo, dst, removable, updated, raised, node, farthest_node>>

\* lines 22-23 and 80-83: list(executor.map(...)) has every result, the executor
\* is shut down, any(results) decides
prune_layers_join ==
    /\ pc = "layer_workers"
    /\ DOMAIN results = SeqSet(todo)
    /\ IF \E n \in DOMAIN results : results[n]
       THEN /\ max_dst' = [max_dst EXCEPT ![Cur] = dst]
            /\ todo' = <<>>
            /\ dst' = dst
            /\ IF oi < Len(ontologies)
               THEN oi' = oi + 1 /\ pc' = "prune_layers"
               ELSE oi' = 1 /\ pc' = "prune_leafs"
       ELSE /\ max_dst' = max_dst
            /\ todo' = todo
            /\ oi' = oi
            /\ IF todo = <<>>
               THEN dst' = dst - 1 /\ pc' = "layer_scan"
               ELSE dst' = dst /\ pc' = "layer_remove"
    /\ UNCHANGED <<output_graphs, rpc, response, sent, retry_cnt, attempt, now, outcome,
                   max_retries, poll_interval, max_wait_time, max_attempts, interval, delay>>
    /\ UNCHANGED <<run, returned, results, depth, uniprot_to_go, pivots, ontologies, graph,
                   UniprotID, Layer_of, selected_nodes, leaves, subgraphs, clean_graphs,
                   removable, updated, raised, node, farthest_node>>

\* lines 85-90: one iteration of the for loop; after the last one dst -= 1
prune_layers_remove ==
    /\ pc = "layer_remove"
    /\ LET n == Head(todo)
           lv == add_leaves(leaves[Cur], n, Cur, clean_graphs[Cur])
       IN  /\ leaves' = [leaves EXCEPT ![Cur] = IF InSeq(n, lv) THEN ListRemove(lv, n) ELSE lv]
           /\ clean_graphs' = [clean_graphs EXCEPT ![Cur] = RemoveNode(clean_graphs[Cur], n)]
    /\ todo' = Tail(todo)
    /\ IF Tail(todo) = <<>>
       THEN dst' = dst - 1 /\ pc' = "layer_scan"
       ELSE dst' = dst /\ pc' = pc
    /\ UNCHANGED <<output_graphs, rpc, response, sent, retry_cnt, attempt, now, outcome,
                   max_retries, poll_interval, max_wait_time, max_attempts, interval, delay>>
    /\ UNCHANGED <<run, returned, results, depth, uniprot_to_go, pivots, ontologies, graph, UniprotID, Layer_of,
                   selected_nodes, max_dst, subgraphs, oi, removable, updated, raised,
                   node, farthest_node>>

----------------------------------------------------------------------------
\* Leaf Pruner (prune_leafs.py)

\* to_remove that never looks at the other referencing nodes
to_removeAlways(rem, neighbors, leaf) == TRUE

to_remove(rem, neighbors, leaf) == neighbors \subseteq (SeqSet(rem) \cup {leaf})

\* update_dst that adopts a strictly greater layer only
update_dstStrict(update_flag, neighbor, d, o) ==
    IF Layer_of[o][neighbor] > d
    THEN [updated |-> TRUE, dst |-> Layer_of[o][neighbor]]
    ELSE [updated |-> update_flag, dst |-> d]

update_dst(update_flag, neighbor, d, o) ==
    IF Layer_of[o][neighbor] >= d
    THEN [updated |-> TRUE, dst |-> Layer_of[o][neighbor]]
    ELSE [updated |-> update_flag, dst |-> d]

\* lines 48-55: what one neighbour of the popped leaf does to leaves, updated, dst
PromoteNeighbor(acc, neighbor, leaf, rem, o, g) ==
    LET promote ==
            IF InDegree(g, neighbor) > 1
            THEN ~InSeq(neighbor, acc.leaves) /\ to_remove(rem, Children(g, neighbor), leaf)
            ELSE TRUE
        u == update_dst(acc.updated, neighbor, acc.dst, o)
    IN  IF promote
        THEN [leaves |-> Append(acc.leaves, neighbor), updated |-> u.updated, dst |-> u.dst]
        ELSE acc

RECURSIVE NeighborLoop(_, _, _, _, _, _)
\* the for loop of lines 47-55
NeighborLoop(acc, nbrs, leaf, rem, o, g) ==
    IF nbrs = <<>> THEN acc
    ELSE NeighborLoop(PromoteNeighbor(acc, Head(nbrs), leaf, rem, o, g),
                      Tail(nbrs), leaf, rem, o, g)

\* one iteration of the loop of clean_all_layers up to line 80 of clean_graph_layer
clean_all_layers ==
    /\ pc = "prune_leafs"
    /\ dst' = max_dst[Cur]
    /\ removable' = <<>>
    /\ pc' = "leaf_collect"
    /\ UNCHANGED <<output_graphs, rpc, response, sent, retry_cnt, attempt, now, outcome,
                   max_retries, poll_interval, max_wait_time, max_attempts, interval, delay>>
    /\ UNCHANGED <<run, returned, results, depth, uniprot_to_go, pivots, ontologies, graph, UniprotID, Layer_of,
                   selected_nodes, max_dst, leaves, subgraphs, clean_graphs, oi, todo,
                   updated, raised, node, farthest_node>>

\* CollectLoop that collects no leaf of the layer
CollectLoopNone(rem, lid) == rem

RECURSIVE CollectLoopAnyLeaf(_, _)
\* CollectLoop without the test of line 85: every leaf of the layer joins removable
CollectLoopAnyLeaf(rem, lid) ==
    IF lid = <<>> THEN rem
    ELSE IF InSeq(Head(lid), rem)
    THEN CollectLoopAnyLeaf(rem, Tail(lid))
    ELSE CollectLoopAnyLeaf(Append(rem, Head(lid)), Tail(lid))

RECURSIVE CollectLoop(_, _)
\* lines 84-88: the leaves of the layer without 'UniprotID' join removable once
CollectLoop(rem, lid) ==
    IF lid = <<>> THEN rem
    ELSE IF HasUniprot(Head(lid)) \/ InSeq(Head(lid), rem)
    THEN CollectLoop(rem, Tail(lid))
    ELSE CollectLoop(Append(rem, Head(lid)), Tail(lid))

\* the loop test with the layer of the root included
WhileDstAtRoot(d) == d >= 0

\* line 81: the test of the while loop of clean_graph_layer
WhileDst(d) == d > 0

\* lines 81-89 and 44: the loop test, the collection, the entry of process_leaves
clean_graph_layer ==
    /\ pc = "leaf_collect"
    /\ IF WhileDst(dst)
       THEN /\ removable' = CollectLoop(removable,
                                find_nodes_at_distance(Cur, dst, leaves[Cur], clean_graphs[Cur]))
            /\ updated' = FALSE
            /\ pc' = "leaf_pop"
            /\ oi' = oi
       ELSE /\ UNCHANGED <<removable, updated>>
            /\ IF oi < Len(ontologies)
               THEN oi' = oi + 1 /\ pc' = "prune_leafs"
               ELSE oi' = oi /\ pc' = "done"
    /\ UNCHANGED <<output_graphs, rpc, response, sent, retry_cnt, attempt, now, outcome,
                   max_retries, poll_interval, max_wait_time, max_attempts, interval, delay>>
    /\ UNCHANGED <<run, returned, results, depth, uniprot_to_go, pivots, ontologies, graph, UniprotID, Layer_of,
                   selected_nodes, max_dst, leaves, subgraphs, clean_graphs, todo, dst,
                   raised, node, farthest_node>>

\* lines 45-59: one iteration of the while loop of process_leaves
process_leaves_pop ==
    /\ pc = "leaf_pop"
    /\ removable # <<>>
    /\ LET leaf == Last(removable)
           rem == Front(removable)
           g == clean_graphs[Cur]
           acc == NeighborLoop([leaves |-> leaves[Cur], updated |-> updated, dst |-> dst],
                               SortedSeq(Parents(g, leaf)), leaf, rem, Cur, g)
       IN  /\ removable' = rem
           /\ updated' = acc.updated
           /\ dst' = acc.dst
           /\ clean_graphs' = [clean_graphs EXCEPT ![Cur] = RemoveNode(g, leaf)]
           /\ leaves' = [leaves EXCEPT ![Cur] =
                            IF InSeq(leaf, acc.leaves) THEN ListRemove(acc.leaves, leaf)
                            ELSE acc.leaves]
    /\ UNCHANGED <<output_graphs, rpc, response, sent, retry_cnt, attempt, now, outcome,
                   max_retries, poll_interval, max_wait_time, max_attempts, interval, delay>>
    /\ UNCHANGED <<run, returned, results, pc, depth, uniprot_to_go, pivots, ontologies, graph, UniprotID,
                   Layer_of, selected_nodes, max_dst, subgraphs, oi, todo, raised, node,
                   farthest_node>>

\* ReturnDst that never decrements
ReturnDstKeep(update_flag, d) == d

\* lines 61-63: the dst that process_leaves returns
ReturnDst(update_flag, d) == IF ~update_flag THEN d - 1 ELSE d

\* lines 61-63: process_leaves returns
process_leaves_return ==
    /\ pc = "leaf_pop"
    /\ removable = <<>>
    /\ dst' = ReturnDst(updated, dst)
    /\ pc' = "leaf_collect"
    /\ UNCHANGED <<output_graphs, rpc, response, sent, retry_cnt, attempt, now, outcome,
                   max_retries, poll_interval, max_wait_time, max_attempts, interval, delay>>
    /\ UNCHANGED <<run, returned, results, depth, uniprot_to_go, pivots, ontologies, graph, UniprotID, Layer_of,
                   selected_nodes, max_dst, leaves, subgraphs, clean_graphs, oi, todo,
                   removable, updated, raised, node, farthest_node>>

----------------------------------------------------------------------------
\* process_cleaning called once more, on the cleaned graph that its first call
\* returned for the root, with that root and the same annotation map; the cleaned
\* graph carries the attributes of its nodes
process_cleaning_again ==
    /\ pc = "done"
    /\ run = 1
    /\ LET o == ontologies[1]
       IN  /\ o \in DOMAIN clean_graphs
           /\ clean_graphs[o].nodes # {}
           /\ graph' = clean_graphs[o]
           /\ pivots' = <<o>>
           /\ ontologies' = <<o>>
           /\ UniprotID' = [n \in DOMAIN UniprotID \cap clean_graphs[o].nodes |-> UniprotID[n]]
           /\ Layer_of' = [c \in DOMAIN Layer_of |->
                              [n \in DOMAIN Layer_of[c] \cap clean_graphs[o].nodes |->
                                  Layer_of[c][n]]]
    /\ run' = 2
    /\ returned' = clean_graphs
    /\ pc' = "map"
    /\ depth' = 0
    /\ selected_nodes' = EmptyFn
    /\ max_dst' = EmptyFn
    /\ leaves' = EmptyFn
    /\ subgraphs' = EmptyFn
    /\ clean_graphs' = EmptyFn
    /\ oi' = 0
    /\ todo' = <<>>
    /\ dst' = 0
    /\ removable' = <<>>
    /\ node' = 0
    /\ farthest_node' = 0
    /\ updated' = FALSE
    /\ raised' = <<>>
    /\ results' = EmptyFn
    /\ UNCHANGED <<uniprot_to_go, output_graphs, rpc, response, sent, retry_cnt, attempt, now, outcome,
                   max_retries, poll_interval, max_wait_time, max_attempts, interval, delay>>

\* process_cleaning called once more on the input graph, with the same annotation
\* map and the two roots in the other order
process_cleaning_swapped ==
    /\ pc = "done"
    /\ run = 1
    /\ Len(pivots) = 2
    /\ graph' = [nodes |-> graph.nodes \ {Conn},
                 edges |-> {e \in graph.edges : Conn \notin {e[1], e[2]}}]
    /\ pivots' = <<pivots[2], pivots[1]>>
    /\ ontologies' = <<pivots[2], pivots[1]>>
    /\ UniprotID' = [n \in {x \in DOMAIN UniprotID : IsPruchozi(x)} |-> Pruchozi]
    /\ Layer_of' = EmptyFn
    /\ run' = 2
    /\ returned' = clean_graphs
    /\ pc' = "map"
    /\ depth' = 0
    /\ selected_nodes' = EmptyFn
    /\ max_dst' = EmptyFn
    /\ leaves' = EmptyFn
    /\ subgraphs' = EmptyFn
    /\ clean_graphs' = EmptyFn
    /\ oi' = 0
    /\ todo' = <<>>
    /\ dst' = 0
    /\ removable' = <<>>
    /\ node' = 0
    /\ farthest_node' = 0
    /\ updated' = FALSE
    /\ raised' = <<>>
    /\ results' = EmptyFn
    /\ UNCHANGED <<uniprot_to_go, output_graphs, rpc, response, sent, retry_cnt, attempt, now, outcome,
                   max_retries, poll_interval, max_wait_time, max_attempts, interval, delay>>

Next ==
    \/ map_uniprot_to_graph
    \/ get_leaves_by_ontology
    \/ mark_lowest_nodes
    \/ mark_lowest_next
    \/ connect_pivot
    \/ get_clean_graph
    \/ prune_layers_scan
    \/ prune_layers_remove
    \/ clean_all_layers
    \/ clean_graph_layer
    \/ process_leaves_pop
    \/ process_leaves_return

Spec == Init /\ [][Next]_vars

\* the pipeline is one sequential thread: a step that can be taken is taken
SpecFair == InitFair /\ [][Next]_vars /\ WF_vars(Next)

\* a single root is never disconnected: connect_pivot is not reachable
NextSingle ==
    \/ map_uniprot_to_graph
    \/ get_leaves_by_ontology
    \/ mark_lowest_nodes
    \/ mark_lowest_next
    \/ get_clean_graph
    \/ prune_layers_scan
    \/ prune_layers_remove
    \/ clean_all_layers
    \/ clean_graph_layer
    \/ process_leaves_pop
    \/ process_leaves_return

SpecSingle == InitSingle /\ [][NextSingle]_vars

\* the pipeline, run a second time with the roots in the other order
NextSwapped ==
    \/ Next
    \/ process_cleaning_swapped

SpecSwapped == Init /\ [][NextSwapped]_vars

\* the pipeline of one root, run a second time on the cleaned graph
NextRerun ==
    \/ NextSingle
    \/ process_cleaning_again

SpecRerun == InitSingle /\ [][NextRerun]_vars

\* the Annotation Mapper alone, applied twice
NextMapper ==
    \/ map_uniprot_to_graph
    \/ map_uniprot_to_graph_again

SpecMapper == InitMapper /\ [][NextMapper]_vars

\* the pipeline with the worker threads of the layer scan as steps of their own
NextScan ==
    \/ map_uniprot_to_graph
    \/ get_leaves_by_ontology
    \/ mark_lowest_nodes
    \/ mark_lowest_next
    \/ connect_pivot
    \/ get_clean_graph
    \/ prune_layers_submit
    \/ has_uniprot_id_worker
    \/ prune_layers_join
    \/ prune_layers_remove
    \/ clean_all_layers
    \/ clean_graph_layer
    \/ process_leaves_pop
    \/ process_leaves_return

SpecScan == Init /\ [][NextScan]_vars

\* the pipeline on graphs of two roots, large enough for an attempt that marks a
\* node before it fails
SpecRepair == InitRepair /\ [][Next]_vars

\* the pipeline on graphs whose nodes are in any order
SpecMarker == InitMarker /\ [][Next]_vars

----------------------------------------------------------------------------
\* generate_graphviz: the expansion of a cleaned graph for the renderer

\* line 161: the node name that generate_graphviz looks for, "new_conecting_node";
\* the node of connect_pivot is named "new_connecting_node" (Conn)
new_conecting_node == 0 - 1

\* lines 171, 189, 200: the node gets a box with its identifiers
HasUIDs(n) == HasUniprot(n) /\ ~IsLowest(n)

\* line 189: the box of a node that the edges to its parents leave from
Target(n) == IF HasUIDs(n) THEN <<"UIDs", n>> ELSE <<"name_GO_TERM", n>>

\* lines 166-190: every node is replaced by its boxes, 'GO_TERM' + node,
\* 'name_GO_TERM' + node and, with identifiers, 'UIDs' + node; an edge of the graph
\* goes from the last box of the child to the first box of the parent
Expand(g) ==
    [nodes |-> UNION {{<<"GO_TERM", n>>, <<"name_GO_TERM", n>>}
                          \cup (IF HasUIDs(n) THEN {<<"UIDs", n>>} ELSE {}) : n \in g.nodes},
     edges |-> {<<<<"GO_TERM", n>>, <<"name_GO_TERM", n>>>> : n \in g.nodes}
                   \cup {<<<<"name_GO_TERM", n>>, <<"UIDs", n>>>> :
                             n \in {x \in g.nodes : HasUIDs(x)}}
                   \cup {<<Target(e[1]), <<"GO_TERM", e[2]>>>> : e \in g.edges}]

\* generate_graphviz called with the cleaned graph of a key of clean_graphs: it
\* removes the node named at line 161 if the graph has it, and expands the rest;
\* output_graphs holds the graph that is handed to the renderer
generate_graphviz ==
    /\ pc = "done"
    /\ \E o \in DOMAIN clean_graphs \ DOMAIN output_graphs :
           LET g == IF new_conecting_node \in clean_graphs[o].nodes
                    THEN RemoveNode(clean_graphs[o], new_conecting_node)
                    ELSE clean_graphs[o]
           IN  output_graphs' = [k \in DOMAIN output_graphs \cup {o} |->
                                    IF k = o THEN Expand(g) ELSE output_graphs[k]]
    /\ UNCHANGED <<pc, depth, uniprot_to_go, pivots, ontologies, graph, UniprotID, Layer_of,
                   selected_nodes, max_dst, leaves, subgraphs, clean_graphs, oi, todo, dst,
                   removable, node, farthest_node, updated, raised, run, returned, results,
                   rpc, response, sent, retry_cnt, attempt, now, outcome,
                   max_retries, poll_interval, max_wait_time, max_attempts, interval, delay>>

\* the pipeline followed by the expansion of the cleaned graphs
NextRender ==
    \/ Next
    \/ generate_graphviz

SpecRender == Init /\ [][NextRender]_vars

----------------------------------------------------------------------------
\* Retrieval: the polling loops of the remote services

\* the largest max_retries, max_wait_time, poll_interval / interval / delay and
\* max_attempts of a call
MaxRetries == 2
MaxWaitTime == 3
MaxInterval == 2
MaxAttempts == 3

\* a response: err is TRUE when the request raised instead of answering
Response(e, c, b) == [err |-> e, status_code |-> c, body |-> b]
RequestFailed == Response(TRUE, 0, "")

\* the cleaning pipeline is not running while a retrieval function is
NoCleaning ==
    /\ graph = EmptyGraph
    /\ pivots = <<>>
    /\ uniprot_to_go = EmptyFn
    /\ UniprotID = EmptyFn
    /\ ontologies = <<>>
    /\ Layer_of = EmptyFn
    /\ selected_nodes = EmptyFn
    /\ max_dst = EmptyFn
    /\ leaves = EmptyFn
    /\ subgraphs = EmptyFn
    /\ clean_graphs = EmptyFn
    /\ pc = "retrieval"
    /\ depth = 0
    /\ oi = 0
    /\ todo = <<>>
    /\ dst = 0
    /\ removable = <<>>
    /\ node = 0
    /\ farthest_node = 0
    /\ updated = FALSE
    /\ raised = <<>>
    /\ run = 1
    /\ returned = EmptyFn
    /\ results = EmptyFn
    /\ output_graphs = EmptyFn

\* the locals of a retrieval function when it is called
Called ==
    /\ rpc = "request"
    /\ response = NoResponse
    /\ sent = 0
    /\ retry_cnt = 0
    /\ attempt = 0
    /\ now = 0
    /\ outcome = "none"

\* what the status request of check_mapping_status can meet: a network error, a
\* 200 response with results, a 200 response without, a response of another status
MappingResponses ==
    {RequestFailed, Response(FALSE, 200, "results"), Response(FALSE, 200, "empty"),
     Response(FALSE, 500, "")}

InitMapping ==
    /\ NoCleaning
    /\ Called
    /\ max_retries \in 0..MaxRetries
    /\ poll_interval \in 1..MaxInterval
    /\ max_wait_time \in 0..MaxWaitTime
    /\ max_attempts = 0
    /\ interval = 0
    /\ delay = 0

\* line 80
IsOk(r) == ~r.err /\ r.status_code = 200
\* line 84
HasResults(r) == r.body = "results"
\* the wait is over one tick before max_wait_time
TimedOutEarly(elapsed) == elapsed + 1 >= max_wait_time
\* line 90
TimedOut(elapsed) == elapsed >= max_wait_time
\* one more failed check is allowed
ExceededRetriesLate(cnt) == cnt > max_retries + 1
\* lines 101, 112
ExceededRetries(cnt) == cnt > max_retries

\* line 79: the request is sent and answered, or fails; it takes no time or a tick
check_mapping_status_get ==
    /\ rpc = "request"
    /\ \E r \in MappingResponses, d \in 0..1 :
           /\ response' = r
           /\ now' = now + d
    /\ sent' = sent + 1
    /\ rpc' = "response"
    /\ UNCHANGED <<retry_cnt, attempt, outcome>>
    /\ UNCHANGED <<pc, depth, uniprot_to_go, pivots, ontologies, graph, UniprotID, Layer_of,
                   selected_nodes, max_dst, leaves, subgraphs, clean_graphs, oi, todo, dst,
                   removable, node, farthest_node, updated, raised, run, returned, results,
                   output_graphs, max_retries, poll_interval, max_wait_time, max_attempts,
                   interval, delay>>

\* lines 80-116: the rest of one turn of the loop
check_mapping_status_handle ==
    /\ rpc = "response"
    /\ IF IsOk(response)
       THEN /\ retry_cnt' = retry_cnt
            /\ IF HasResults(response)
               THEN outcome' = "status" /\ rpc' = "returned" /\ now' = now
               ELSE IF TimedOut(now)
                    THEN outcome' = "None" /\ rpc' = "returned" /\ now' = now
                    ELSE outcome' = outcome /\ rpc' = "request" /\ now' = now + poll_interval
       ELSE /\ retry_cnt' = retry_cnt + 1
            /\ IF ExceededRetries(retry_cnt')
               THEN outcome' = "None" /\ rpc' = "returned" /\ now' = now
               ELSE outcome' = outcome /\ rpc' = "request" /\ now' = now + poll_interval
    /\ UNCHANGED <<response, sent, attempt>>
    /\ UNCHANGED <<pc, depth, uniprot_to_go, pivots, ontologies, graph, UniprotID, Layer_of,
                   selected_nodes, max_dst, leaves, subgraphs, clean_graphs, oi, todo, dst,
                   removable, node, farthest_node, updated, raised, run, returned, results,
                   output_graphs, max_retries, poll_interval, max_wait_time, max_attempts,
                   interval, delay>>

NextMapping ==
    \/ check_mapping_status_get
    \/ check_mapping_status_handle

\* check_mapping_status is one sequential loop: a step that can be taken is taken
SpecMapping == InitMapping /\ [][NextMapping]_vars /\ WF_vars(NextMapping)

\* what the status request of poll_job can meet: a failed request, an HTTP error
\* status, and the statuses COMPLETE, ERROR, RATELIMIT and any other
PollResponses ==
    {RequestFailed, Response(FALSE, 500, ""), Response(FALSE, 200, "COMPLETE"),
     Response(FALSE, 200, "ERROR"), Response(FALSE, 200, "RATELIMIT"),
     Response(FALSE, 200, "RUNNING")}

InitPoll ==
    /\ NoCleaning
    /\ Called
    /\ max_attempts \in 0..MaxAttempts
    /\ interval \in 1..MaxInterval
    /\ max_retries = 0
    /\ poll_interval = 0
    /\ max_wait_time = 0
    /\ delay = 0

\* the loop makes one more turn
poll_jobHasNextOneMore(a) == a <= max_attempts
\* line 101: range(1, max_attempts+1) has a value after a
poll_jobHasNext(a) == a < max_attempts

\* lines 101-102: the next turn of the loop sends its request
poll_job_get ==
    /\ rpc = "request"
    /\ poll_jobHasNext(attempt)
    /\ attempt' = attempt + 1
    /\ response' \in PollResponses
    /\ sent' = sent + 1
    /\ rpc' = "response"
    /\ UNCHANGED <<retry_cnt, now, outcome>>
    /\ UNCHANGED <<pc, depth, uniprot_to_go, pivots, ontologies, graph, UniprotID, Layer_of,
                   selected_nodes, max_dst, leaves, subgraphs, clean_graphs, oi, todo, dst,
                   removable, node, farthest_node, updated, raised, run, returned, results,
                   output_graphs, max_retries, poll_interval, max_wait_time, max_attempts,
                   interval, delay>>

\* line 119: the loop is over
poll_job_timeout ==
    /\ rpc = "request"
    /\ ~poll_jobHasNext(attempt)
    /\ outcome' = "TimeoutError"
    /\ rpc' = "raised"
    /\ UNCHANGED <<response, sent, retry_cnt, attempt, now>>
    /\ UNCHANGED <<pc, depth, uniprot_to_go, pivots, ontologies, graph, UniprotID, Layer_of,
                   selected_nodes, max_dst, leaves, subgraphs, clean_graphs, oi, todo, dst,
                   removable, node, farthest_node, updated, raised, run, returned, results,
                   output_graphs, max_retries, poll_interval, max_wait_time, max_attempts,
                   interval, delay>>

\* lines 103-118: raise_for_status, then the branch on the status
poll_job_handle ==
    /\ rpc = "response"
    /\ IF response.err
       THEN outcome' = "RequestException" /\ rpc' = "raised" /\ now' = now
       ELSE IF response.status_code >= 400
       THEN outcome' = "HTTPError" /\ rpc' = "raised" /\ now' = now
       ELSE IF response.body = "COMPLETE"
       THEN outcome' = "data" /\ rpc' = "returned" /\ now' = now
       ELSE IF response.body = "ERROR"
       THEN outcome' = "RuntimeError" /\ rpc' = "raised" /\ now' = now
       ELSE IF response.body = "RATELIMIT"
       THEN outcome' = outcome /\ rpc' = "request" /\ now' = now + 10
       ELSE outcome' = outcome /\ rpc' = "request" /\ now' = now + interval
    /\ UNCHANGED <<response, sent, retry_cnt, attempt>>
    /\ UNCHANGED <<pc, depth, uniprot_to_go, pivots, ontologies, graph, UniprotID, Layer_of,
                   selected_nodes, max_dst, leaves, subgraphs, clean_graphs, oi, todo, dst,
                   removable, node, farthest_node, updated, raised, run, returned, results,
                   output_graphs, max_retries, poll_interval, max_wait_time, max_attempts,
                   interval, delay>>

NextPoll ==
    \/ poll_job_get
    \/ poll_job_timeout
    \/ poll_job_handle

SpecPoll == InitPoll /\ [][NextPoll]_vars

\* what the request of submit_elm can meet: a connection failure, and the statuses
\* 200, 429, an error status and a status that raise_for_status lets pass
ElmResponses ==
    {RequestFailed, Response(FALSE, 200, "text"), Response(FALSE, 429, ""),
     Response(FALSE, 500, ""), Response(FALSE, 204, "")}

InitElm ==
    /\ NoCleaning
    /\ Called
    /\ max_attempts \in 0..MaxAttempts
    /\ delay \in 1..MaxInterval
    /\ max_retries = 0
    /\ poll_interval = 0
    /\ max_wait_time = 0
    /\ interval = 0

\* the loop makes one more turn
submit_elmHasNextOneMore(a) == a <= max_attempts
\* line 77: range(1, max_attempts+1) has a value after a
submit_elmHasNext(a) == a < max_attempts

\* lines 77-80: the next turn of the loop sends its request
submit_elm_get ==
    /\ rpc = "request"
    /\ submit_elmHasNext(attempt)
    /\ attempt' = attempt + 1
    /\ response' \in ElmResponses
    /\ sent' = sent + 1
    /\ rpc' = "response"
    /\ UNCHANGED <<retry_cnt, now, outcome>>
    /\ UNCHANGED <<pc, depth, uniprot_to_go, pivots, ontologies, graph, UniprotID, Layer_of,
                   selected_nodes, max_dst, leaves, subgraphs, clean_graphs, oi, todo, dst,
                   removable, node, farthest_node, updated, raised, run, returned, results,
                   output_graphs, max_retries, poll_interval, max_wait_time, max_attempts,
                   interval, delay>>

\* line 103: the loop is over
submit_elm_exhausted ==
    /\ rpc = "request"
    /\ ~submit_elmHasNext(attempt)
    /\ outcome' = "RuntimeError"
    /\ rpc' = "raised"
    /\ UNCHANGED <<response, sent, retry_cnt, attempt, now>>
    /\ UNCHANGED <<pc, depth, uniprot_to_go, pivots, ontologies, graph, UniprotID, Layer_of,
                   selected_nodes, max_dst, leaves, subgraphs, clean_graphs, oi, todo, dst,
                   removable, node, farthest_node, updated, raised, run, returned, results,
                   output_graphs, max_retries, poll_interval, max_wait_time, max_attempts,
                   interval, delay>>

\* lines 82-101: the branch on the status code; a connection failure and the
\* HTTPError of raise_for_status go to the except clause
submit_elm_handle ==
    /\ rpc = "response"
    /\ IF IsOk(response)
       THEN outcome' = "text" /\ rpc' = "returned" /\ now' = now
       ELSE IF ~response.err /\ response.status_code = 429
       THEN outcome' = outcome /\ rpc' = "request" /\ now' = now + delay
       ELSE IF ~response.err /\ response.status_code < 400
       THEN outcome' = outcome /\ rpc' = "request" /\ now' = now
       ELSE IF attempt < max_attempts
       THEN outcome' = outcome /\ rpc' = "request" /\ now' = now + delay
       ELSE outcome' = "RuntimeError" /\ rpc' = "raised" /\ now' = now
    /\ UNCHANGED <<response, sent, retry_cnt, attempt>>
    /\ UNCHANGED <<pc, depth, uniprot_to_go, pivots, ontologies, graph, UniprotID, Layer_of,
                   selected_nodes, max_dst, leaves, subgraphs, clean_graphs, oi, todo, dst,
                   removable, node, farthest_node, updated, raised, run, returned, results,
                   output_graphs, max_retries, poll_interval, max_wait_time, max_attempts,
                   interval, delay>>

NextElm ==
    \/ submit_elm_get
    \/ submit_elm_exhausted
    \/ submit_elm_handle

SpecElm == InitElm /\ [][NextElm]_vars

----------------------------------------------------------------------------
\* Properties

\* the nodes of the working copy of a category before any deletion
WorkingNodes(o) == CleanCopy(graph, subgraphs[o]).nodes
\* the nodes the pruners have deleted from the working copy of a category
Deleted(o) == WorkingNodes(o) \ clean_graphs[o].nodes
Done == pc = "done"

\* C1: no pruner deletes a node with a real annotation: at every step of the
\* pruning, and when cleaning is done, every node of a category's working copy
\* that carries a list of identifiers is still in the category's graph.
RealAnnotationKept ==
    \A o \in DOMAIN clean_graphs :
        \A n \in WorkingNodes(o) : IsReal(n) => n \in clean_graphs[o].nodes

\* C1 witness: cleaning is done, the outer-layer pruner deleted a node (above the
\* returned max layer), the leaf pruner deleted a node (at or below it), and a
\* node with a real annotation is in the cleaned graph.
RealAnnotationKeptWitness ==
    /\ Done
    /\ \E o \in DOMAIN clean_graphs :
        /\ \E n \in clean_graphs[o].nodes : IsReal(n)
        /\ \E m \in Deleted(o) : Layer_of[o][m] > max_dst[o]
        /\ \E k \in Deleted(o) : Layer_of[o][k] <= max_dst[o]

\* a node carries a real annotation or the boundary sentinel
Annotated(n) == IsReal(n) \/ IsLowest(n)
\* n lies on a path of the category's graph from an annotated node up to the root
OnPath(o, n) ==
    \E a \in clean_graphs[o].nodes :
        /\ Annotated(a)
        /\ n \in ReachUp(clean_graphs[o], {a})
        /\ o \in ReachUp(clean_graphs[o], {n})
\* every remaining node is annotated or on a path between the root and an
\* annotated node, and no unannotated childless node but the root remains
NoDangling(o) ==
    \A n \in clean_graphs[o].nodes :
        /\ Annotated(n) \/ OnPath(o, n)
        /\ (~Annotated(n) /\ n # o) => Children(clean_graphs[o], n) # {}
\* no node of the category's working copy carries the transit sentinel
NoTransit(o) == \A n \in WorkingNodes(o) : ~IsPruchozi(n)

\* C2 (amended): when cleaning is done, in every category none of whose nodes
\* carries the transit sentinel, every node remaining in the cleaned graph carries
\* a real annotation or the boundary sentinel or lies on a path between the root
\* and such a node; no unannotated childless node other than the root remains.
NoDanglingWithoutTransit ==
    Done => \A o \in DOMAIN clean_graphs : NoTransit(o) => NoDangling(o)

\* C2 witness: cleaning is done for a category without transit nodes, a node was
\* deleted, and an unannotated node other than the root remains on a path.
NoDanglingWitness ==
    /\ Done
    /\ \E o \in DOMAIN clean_graphs :
        /\ NoTransit(o)
        /\ Deleted(o) # {}
        /\ \E n \in clean_graphs[o].nodes \ {o} : ~HasUniprot(n)

\* C2 as stated: when cleaning is done every remaining node of every category is
\* annotated, boundary, or on a path between the root and such a node.
NoDanglingAnyCategory ==
    Done => \A o \in DOMAIN clean_graphs : NoDangling(o)

\* C3: when cleaning is done, every node of a category's cleaned graph that
\* carries a real annotation or the boundary sentinel has a directed path to the
\* category root inside the cleaned graph.
AnnotatedReachesRoot ==
    Done => \A o \in DOMAIN clean_graphs :
        \A n \in clean_graphs[o].nodes :
            Annotated(n) => o \in ReachUp(clean_graphs[o], {n})

\* C3 witness: cleaning is done, an annotated node below the first layer remains,
\* and one of its remaining parents had another child, which was deleted.
AnnotatedReachesRootWitness ==
    /\ Done
    /\ \E o \in DOMAIN clean_graphs :
        \E n \in clean_graphs[o].nodes :
            /\ Annotated(n)
            /\ Layer_of[o][n] >= 2
            /\ \E q \in Parents(clean_graphs[o], n) :
                \E k \in Deleted(o) : q \in Parents(graph, k)

\* the number of occurrences of x in a list
Count(x, list) == Len(SelectSeq(list, LAMBDA y : y = x))
\* the nodes a pruner has scheduled for deletion in its current pass
Scheduled == IF pc = "layer_remove" THEN SeqSet(todo) ELSE SeqSet(removable)

\* a step that deletes a node with more than one child finds every child scheduled
\* for deletion in the same pass (the children deleted before are no longer there)
ChildrenScheduled ==
    \A o \in DOMAIN clean_graphs \cap DOMAIN clean_graphs' :
        \A n \in clean_graphs[o].nodes \ clean_graphs'[o].nodes :
            Cardinality(Children(clean_graphs[o], n)) > 1
                => Children(clean_graphs[o], n) \subseteq Scheduled

\* a pop of the Leaf Pruner appends a parent with more than one incoming edge to
\* the leaf list only if every node referencing it is in the removable set, the
\* popped node included
PromotedOnlyIfAllRemovable ==
    (pc = "leaf_pop" /\ removable # <<>>) =>
        \A x \in Parents(clean_graphs[Cur], Last(removable)) :
            (/\ InDegree(clean_graphs[Cur], x) > 1
             /\ Count(x, leaves'[Cur]) > Count(x, leaves[Cur]))
                => Children(clean_graphs[Cur], x) \subseteq SeqSet(removable)

\* C4 (amended): in the Leaf Pruner a neighbour with more than one incoming edge
\* is promoted to the leaf list only if all nodes referencing it are in the
\* removable set (including the node being popped).
LeafPromotionRule == [][PromotedOnlyIfAllRemovable]_vars

\* C4 witness: a pop has just promoted a parent with more than one child: it is
\* the last entry of the leaf list, the layer tracking was updated to its layer,
\* and its remaining children are all in the removable set.
LeafPromotionWitness ==
    /\ pc = "leaf_pop"
    /\ updated
    /\ leaves[Cur] # <<>>
    /\ LET x == Last(leaves[Cur])
       IN  /\ x \in clean_graphs[Cur].nodes
           /\ Layer_of[Cur][x] = dst
           /\ InDegree(CleanCopy(graph, subgraphs[Cur]), x) > 1
           /\ Children(clean_graphs[Cur], x) # {}
           /\ Children(clean_graphs[Cur], x) \subseteq SeqSet(removable)

\* C4 as stated: whenever a pruner deletes a node with more than one child, every
\* child has been deleted or is scheduled for deletion in the same pass; and the
\* Leaf Pruner promotes a shared parent only if all its children are removable.
ChildrenScheduledAndPromotionRule ==
    [][ChildrenScheduled /\ PromotedOnlyIfAllRemovable]_vars

\* a step of the Boundary Marker leaves every existing annotation as it is and
\* writes nothing but the boundary sentinel on nodes that had no annotation
MarkerKeepsAnnotations ==
    pc = "mark" =>
        /\ \A n \in DOMAIN UniprotID :
            n \in DOMAIN UniprotID' /\ UniprotID'[n] = UniprotID[n]
        /\ \A n \in DOMAIN UniprotID' \ DOMAIN UniprotID : UniprotID'[n] = Lowest

\* C5: the Boundary Marker never changes the annotation of a node that already
\* carries one, writes the boundary sentinel only on a node without annotation,
\* and every real annotation is the same before and after each of its steps.
BoundaryMarkerNeverOverwrites == [][MarkerKeepsAnnotations]_vars

\* C5 witness: the Boundary Marker has found, for a start node, a farthest node
\* other than the start which carries a real annotation, and it is still real.
BoundaryMarkerWitness ==
    /\ pc = "mark"
    /\ node # farthest_node
    /\ node \in graph.nodes
    /\ IsReal(farthest_node)

\* C6: neither pruner deletes a node marked with the boundary sentinel: at every
\* step of the pruning, and when cleaning is done, every node of a category's
\* working copy that carries the boundary sentinel is in the category's graph.
BoundaryKept ==
    \A o \in DOMAIN clean_graphs :
        \A n \in WorkingNodes(o) : IsLowest(n) => n \in clean_graphs[o].nodes

\* C6 witness: cleaning is done, a pruner deleted a node of the layer of a node
\* that carries the boundary sentinel, and that node is in the cleaned graph.
BoundaryKeptWitness ==
    /\ Done
    /\ \E o \in DOMAIN clean_graphs :
        \E n \in clean_graphs[o].nodes :
            /\ IsLowest(n)
            /\ \E k \in Deleted(o) : Layer_of[o][k] = Layer_of[o][n]

\* a step of the Outer-Layer Pruner deletes only nodes whose layer is above the
\* layer of every node of the category that carries an annotation
DeletesAboveAnnotations ==
    pc = "layer_remove" =>
        \A n \in clean_graphs[Cur].nodes \ clean_graphs'[Cur].nodes :
            \A a \in WorkingNodes(Cur) :
                HasUniprot(a) => Layer_of[Cur][n] > Layer_of[Cur][a]

\* C7: the Outer-Layer Pruner stops at the first layer, scanning downward, that
\* contains an annotated node: no node of that layer or of a lower layer is
\* deleted by the Outer-Layer Pruner.
OuterPrunerMonotone == [][DeletesAboveAnnotations]_vars

\* C7 witness: the Outer-Layer Pruner has returned for every category; in one it
\* deleted a layer and stopped at a layer that contains an annotated node.
OuterPrunerMonotoneWitness ==
    /\ pc = "prune_leafs"
    /\ oi = 1
    /\ \E o \in DOMAIN clean_graphs :
        /\ Deleted(o) # {}
        /\ \E a \in clean_graphs[o].nodes : IsReal(a) /\ Layer_of[o][a] = max_dst[o]

\* the Outer-Layer Pruner has returned for category o
OuterReturned(o) ==
    /\ o \in DOMAIN clean_graphs
    /\ \/ pc \in {"prune_leafs", "leaf_collect", "leaf_pop", "done"}
       \/ /\ pc \in {"prune_layers", "layer_scan", "layer_remove"}
          /\ \E i \in 1..(oi - 1) : ontologies[i] = o
\* the greatest layer of the nodes of S in category o
MaxLayer(o, S) == CHOOSE l \in {Layer_of[o][n] : n \in S} : \A n \in S : Layer_of[o][n] <= l
\* the Outer-Layer Pruner stopped at the highest layer of the nodes of S, returned
\* it as the max-layer value and deleted every node above it
StoppedAtHighest(o, S) ==
    S # {} =>
        /\ max_dst[o] = MaxLayer(o, S)
        /\ \A n \in clean_graphs[o].nodes : Layer_of[o][n] <= max_dst[o]

\* C8 (amended): the Outer-Layer Pruner, scanning from maxLayer down to 0, stops
\* at the first layer that contains a node carrying any annotation (a real one,
\* the boundary sentinel or the transit sentinel) and returns that layer as the
\* category's new max-layer value; on return every node with a greater layer
\* value has been deleted from the working graph.
OuterPrunerStopsAtAnyAnnotation ==
    \A o \in DOMAIN clean_graphs :
        OuterReturned(o) => StoppedAtHighest(o, {n \in WorkingNodes(o) : HasUniprot(n)})

\* C8 witness: the Outer-Layer Pruner has returned for a category after deleting
\* a layer; it stopped at a layer whose only annotated nodes carry a sentinel,
\* above every node with a real annotation.
OuterPrunerStopsWitness ==
    /\ pc = "prune_leafs"
    /\ \E o \in DOMAIN clean_graphs :
        /\ Deleted(o) # {}
        /\ \E a \in clean_graphs[o].nodes :
            HasUniprot(a) /\ ~IsReal(a) /\ Layer_of[o][a] = max_dst[o]
        /\ \E r \in clean_graphs[o].nodes : IsReal(r)
        /\ \A r \in clean_graphs[o].nodes : IsReal(r) => Layer_of[o][r] < max_dst[o]

\* C8 as stated: the Outer-Layer Pruner stops at the first layer that contains a
\* node carrying a real annotation and returns that layer; every node with a
\* greater layer has been deleted.
OuterPrunerStopsAtRealAnnotation ==
    \A o \in DOMAIN clean_graphs :
        OuterReturned(o) => StoppedAtHighest(o, {n \in WorkingNodes(o) : IsReal(n)})

\* no node of the category carries any annotation
NoAnnotation(o) == \A n \in subgraphs[o] : ~HasUniprot(n)
\* no identifier is mapped to a term and no node carries a sentinel
NothingAnnotated ==
    /\ DOMAIN UniprotID = {}
    /\ \A u \in DOMAIN uniprot_to_go : uniprot_to_go[u] = {}
\* cleaning stopped with an error
Failed == pc \in {"AttributeError", "except"}

ScenarioA(o, a) ==
    /\ \A n \in graph.nodes \ {o} : Parents(graph, n) # {}
    /\ MaxLayer(o, subgraphs[o]) = 3
    /\ DOMAIN UniprotID = {a}
    /\ IsReal(a)
    /\ Layer_of[o][a] = 3

\* C10: for a single-root graph with layers 0..3 in which exactly one node, at
\* layer 3, is annotated, the cleaned graph contains exactly the annotated node,
\* its ancestors and the root; every other node is removed.
ScenarioAKeepsExactlyThePaths ==
    Done => \A o \in DOMAIN clean_graphs :
        \A a \in graph.nodes :
            ScenarioA(o, a) => clean_graphs[o].nodes = ReachUp(graph, {a})

\* C10 witness: cleaning of a Scenario A graph is done, and another node of
\* layer 3 was removed.
ScenarioAWitness ==
    /\ Done
    /\ \E o \in DOMAIN clean_graphs :
        \E a \in graph.nodes :
            /\ ScenarioA(o, a)
            /\ \E k \in Deleted(o) : k # a /\ Layer_of[o][k] = 3

\* Scenario B in the working graph w of a category, as it is before pruning: the
\* annotated node a has the two parents p and q, and p has another child c, which
\* is childless and carries no annotation
ScenarioB(w, a, p, q, c) ==
    /\ IsReal(a)
    /\ p # q
    /\ {p, q} \subseteq Parents(w, a)
    /\ c # a
    /\ c \in Children(w, p)
    /\ Children(w, c) = {}
    /\ ~HasUniprot(c)

\* C11: when an annotated node has two parents and one of them also has another,
\* unannotated, childless child, then after cleaning the unannotated child is
\* removed and both parents of the annotated node are retained.
ScenarioBKeepsSharedParent ==
    Done => \A o \in DOMAIN clean_graphs :
        LET w == CleanCopy(graph, subgraphs[o])
        IN  \A a \in w.nodes : \A p, q \in Parents(w, a) : \A c \in Children(w, p) :
                ScenarioB(w, a, p, q, c) =>
                    /\ c \notin clean_graphs[o].nodes
                    /\ {a, p, q} \subseteq clean_graphs[o].nodes

\* C11 witness: cleaning of a Scenario B graph is done; the unannotated child lay
\* at or below the layer the Outer-Layer Pruner stopped at, so the Leaf Pruner
\* removed it, and its parent, not the root, is retained.
ScenarioBWitness ==
    /\ Done
    /\ \E o \in DOMAIN clean_graphs :
        \E a, p, q, c \in WorkingNodes(o) :
            /\ ScenarioB(CleanCopy(graph, subgraphs[o]), a, p, q, c)
            /\ p # o
            /\ Layer_of[o][c] <= max_dst[o]
            /\ c \notin clean_graphs[o].nodes
            /\ p \in clean_graphs[o].nodes

RECURSIVE ReachDown(_, _)
\* the nodes reachable from the set S against the edges: S and its descendants
ReachDown(g, S) ==
    LET T == S \cup UNION {Children(g, n) : n \in S}
    IN  IF T = S THEN S ELSE ReachDown(g, T)

\* Scenario C: two category roots with disjoint reachable sets; the annotated
\* terms, at least one, are all reachable from the second root; no transit node
ScenarioC ==
    /\ Len(pivots) = 2
    /\ \A n \in graph.nodes : ~IsPruchozi(n)
    /\ \A u \in DOMAIN uniprot_to_go :
        /\ uniprot_to_go[u] # {}
        /\ uniprot_to_go[u] \subseteq ReachDown(graph, {pivots[2]})
    /\ ReachDown(graph, {pivots[1]}) \cap ReachDown(graph, {pivots[2]}) = {}

MappedTerms == (UNION {uniprot_to_go[u] : u \in DOMAIN uniprot_to_go}) \cap graph.nodes
\* every ancestor of a mapped term that has no parent among the terms is one of
\* the category roots: joining the roots connects all that the annotations touch
RootsCoverAnnotations ==
    \A n \in ReachUp(graph, MappedTerms) \ {Conn} :
        Parents(graph, n) \ {Conn} = {} => n \in SeqSet(pivots)

\* C13 (amended): in a run on a graph in which every parentless ancestor of an
\* annotated term is a category root, Repair fires at most once; the restarted
\* attempt never raises the disconnection signal again, and when it is done the
\* connector is the single category root.
RepairAtMostOnce ==
    (depth >= 1 /\ RootsCoverAnnotations) =>
        /\ depth = 1
        /\ pc # "except"
        /\ ontologies = <<Conn>>
        /\ Done => DOMAIN clean_graphs = {Conn}

\* C13 witness: Repair has fired once on such a graph, and the restarted attempt
\* is done with a cleaned graph that joins the two roots under the connector.
RepairAtMostOnceWitness ==
    /\ RootsCoverAnnotations
    /\ Done
    /\ depth = 1
    /\ Len(pivots) = 2
    /\ {pivots[1], pivots[2], Conn} \subseteq clean_graphs[Conn].nodes

\* C13 as stated: in any run Repair fires at most once and the restarted attempt
\* never raises the disconnection signal again.
RepairAtMostOnceInAnyRun ==
    /\ depth <= 1
    /\ depth = 1 => pc # "except"

\* the run has ended: the results were returned, or an error left the pipeline
Ended == pc \in {"done", "AttributeError"}

\* C14: the repair loop is bounded: for every input graph the run eventually
\* ends, in Done or in a terminal error, and never retries forever.
RepairLoopBounded == <>Ended

\* positions of the orchestrator inside the two pruners
PrunerPcs == {"prune_layers", "layer_scan", "layer_remove", "prune_leafs",
              "leaf_collect", "leaf_pop"}
\* the step is one traversal of the Boundary Marker, started at node'
TraversalStep == pc = "mark" /\ oi' = oi /\ pc' \in {"mark", "except"}
\* the traversal from s for o visits a node without the layer of o
VisitsUnlayered(o, s) == \E n \in ReachUp(graph, {s}) : ~HasLayer(o, n)

\* C15: a Boundary Marker traversal started at s for ontology o that visits a node
\* without a layer value for o ends with the disconnection signal carrying (s, o),
\* and no other traversal ends with it; the only step that follows the signal is
\* Repair with a restart of the attempt; and no pruner has run, or runs, in the
\* attempt that raised the signal: no working copy has been built when it is raised.
SignalAndAnswer ==
    [][ /\ TraversalStep =>
            IF VisitsUnlayered(ontologies[oi], node')
            THEN pc' = "except" /\ raised' = <<node', ontologies[oi]>>
            ELSE pc' = "mark" /\ raised' = <<>>
        /\ pc' = "except" => (pc = "mark" /\ clean_graphs' = EmptyFn)
        /\ pc = "except" =>
            /\ pc' = "map"
            /\ Conn \in graph'.nodes
            /\ ontologies' = <<Conn>>
            /\ raised' = <<>>
        /\ pc \in PrunerPcs => pc' \in PrunerPcs \cup {"done"} ]_vars

\* C15 witness: the signal is in flight, raised by a traversal from a term below
\* the roots for the first root, and nothing has been pruned.
SignalAndAnswerWitness ==
    /\ pc = "except"
    /\ depth = 0
    /\ Len(raised) = 2
    /\ raised[1] \notin SeqSet(pivots)
    /\ raised[2] = pivots[1]
    /\ clean_graphs = EmptyFn

\* C16: Repair changes the graph only by adding the connector node and one edge
\* from every current category root to the connector: no other node or edge is
\* added, removed or redirected, and no attribute changes; and it replaces the
\* category roots by the one-element list holding the connector.
RepairFrame ==
    [][ pc = "except" =>
            /\ graph'.nodes = graph.nodes \cup {Conn}
            /\ graph'.edges = graph.edges \cup {<<r, Conn>> : r \in SeqSet(ontologies)}
            /\ ontologies' = <<Conn>>
            /\ UNCHANGED <<UniprotID, Layer_of, uniprot_to_go>> ]_vars

\* C16 witness: Repair has just joined two category roots under the connector,
\* and the edges of the input graph are all still there.
RepairFrameWitness ==
    /\ pc = "map"
    /\ depth = 1
    /\ ontologies = <<Conn>>
    /\ Len(pivots) = 2
    /\ {e \in graph.edges : Conn \in {e[1], e[2]}} = {<<pivots[1], Conn>>, <<pivots[2], Conn>>}
    /\ graph.edges \ {<<pivots[1], Conn>>, <<pivots[2], Conn>>} # {}

\* node n carries identifier u in the annotation attr
Carries(attr, n, u) == n \in DOMAIN attr /\ attr[n].kind = "ids" /\ InSeq(u, attr[n].ids)
\* the terms the trace sel gives for identifier u; an identifier without a match
\* has no key in the trace
Trace(sel, u) == IF u \in DOMAIN sel THEN SeqSet(sel[u]) ELSE {}
\* every term an annotation map or a graph of SpecMapper can name
MapperTerms == 1..(MaxNodeMapper + 1)

\* C17: mapping a graph with no prior annotations ends without failure; afterwards
\* a node n carries identifier u if and only if n is a graph node among u's target
\* terms; the trace gives for each identifier exactly its target terms that are
\* graph nodes; and the node set and the edge set of the graph are unchanged.
MapperResult ==
    [][ (pc = "map" /\ UniprotID = EmptyFn) =>
            /\ pc' = "layers"
            /\ \A n \in MapperTerms \cup graph.nodes : \A u \in UniprotIds :
                   Carries(UniprotID', n, u) <=> (n \in graph.nodes /\ n \in uniprot_to_go[u])
            /\ \A u \in UniprotIds :
                   Trace(selected_nodes', u) = uniprot_to_go[u] \cap graph.nodes
            /\ graph' = graph ]_vars

\* C17 witness: the graph had no annotation and has been mapped without failure;
\* one identifier has target terms and none of them is in the graph, the other
\* has a target term in the graph and one outside it, and its node carries it.
MapperResultWitness ==
    /\ pc = "layers"
    /\ \A n \in DOMAIN UniprotID : UniprotID[n].kind = "ids"
    /\ \E u, v \in UniprotIds :
        /\ uniprot_to_go[u] # {}
        /\ uniprot_to_go[u] \cap graph.nodes = {}
        /\ u \notin DOMAIN selected_nodes
        /\ uniprot_to_go[v] \ graph.nodes # {}
        /\ \E n \in graph.nodes : Carries(UniprotID, n, v)

\* no identifier appears twice in the annotation of a node
NoDuplicate(attr) ==
    \A n \in DOMAIN attr :
        \A i, j \in 1..Len(attr[n].ids) : attr[n].ids[i] = attr[n].ids[j] => i = j

\* C18: the Annotation Mapper is idempotent: applied a second time with the same
\* annotation map it does not fail, leaves the annotation of every node exactly as
\* the first application left it, with no identifier twice in a set, and returns
\* the same trace.
MapperIdempotent ==
    [][ (pc = "layers" /\ pc' # "layers") =>
            /\ pc' = "mapped"
            /\ UniprotID' = UniprotID
            /\ NoDuplicate(UniprotID')
            /\ selected_nodes' = selected_nodes ]_vars

\* C18 witness: the mapper has been applied twice, and a node carries the two
\* identifiers.
MapperIdempotentWitness ==
    /\ pc = "mapped"
    /\ \E n \in graph.nodes : \A u \in UniprotIds : Carries(UniprotID, n, u)

\* C19: the pipeline, run a second time on an already-cleaned category graph with
\* the same annotation map, yields a cleaned graph with the identical node set.
PipelineIdempotent ==
    (run = 2 /\ Done) => clean_graphs[ontologies[1]].nodes = graph.nodes

\* C20: each category is pruned on a private copy: a step of a pruner changes
\* neither the shared term graph nor the working graph of any category but the
\* one it prunes; and the cleaned graphs are the same when the categories are
\* processed in the other order.
PrivateCopies ==
    [][ /\ pc \in PrunerPcs =>
            /\ graph' = graph
            /\ \A o \in DOMAIN clean_graphs \ {Cur} :
                   o \in DOMAIN clean_graphs' /\ clean_graphs'[o] = clean_graphs[o]
        /\ (run' = 2 /\ pc' = "done") => clean_graphs' = returned' ]_vars

\* C20 witness: the two roots have been processed in both orders; the working graph
\* of each root lost a node, the two cleaned graphs differ, and the term graph
\* still has all its nodes.
PrivateCopiesWitness ==
    /\ run = 2
    /\ Done
    /\ depth = 0
    /\ graph.nodes = Nodes
    /\ \A o \in {1, 2} :
        /\ o \in DOMAIN clean_graphs
        /\ clean_graphs[o].nodes # {}
        /\ subgraphs[o] \ clean_graphs[o].nodes # {}
    /\ clean_graphs[1] # clean_graphs[2]

\* the stage of one attempt the orchestrator is in
Stage(p) ==
    CASE p = "map" -> 1
      [] p = "layers" -> 2
      [] p \in {"mark", "except"} -> 3
      [] p \in {"prune_layers", "layer_scan", "layer_workers", "layer_remove"} -> 4
      [] p \in {"prune_leafs", "leaf_collect", "leaf_pop"} -> 5
      [] OTHER -> 6
\* category o has in the step what it had before it
CategoryUntouched(o) ==
    /\ o \in DOMAIN clean_graphs => (o \in DOMAIN clean_graphs' /\ clean_graphs'[o] = clean_graphs[o])
    /\ o \in DOMAIN leaves => (o \in DOMAIN leaves' /\ leaves'[o] = leaves[o])
    /\ o \in DOMAIN max_dst => (o \in DOMAIN max_dst' /\ max_dst'[o] = max_dst[o])

\* C21: within one attempt the steps run in the order Mapper, Oracle, Boundary
\* Marker, Outer-Layer Pruner, Leaf Pruner: no working graph exists and no node is
\* deleted before the Boundary Marker has finished for all categories; the Leaf
\* Pruner of a category starts after the Outer-Layer Pruner of every category has
\* returned, at the dst value the Outer-Layer Pruner returned for the category,
\* and no step in between touches the graph, the leaf list or the dst value that
\* the Outer-Layer Pruner left for the category.
StepOrder ==
    [][ /\ (run' = run /\ pc # "except") => Stage(pc') >= Stage(pc)
        /\ Stage(pc) <= 3 => (clean_graphs = EmptyFn /\ graph.nodes \subseteq graph'.nodes)
        /\ (Stage(pc) = 3 /\ Stage(pc') = 4) =>
               (oi = Len(ontologies) /\ \A n \in graph.nodes : ~IsStart(ontologies[oi], n) \/ ~InSeq(n, todo))
        /\ Stage(pc) \in {4, 5} =>
               \A i \in 1..Len(ontologies) : i # oi => CategoryUntouched(ontologies[i])
        /\ pc = "prune_leafs" =>
               /\ \A i \in 1..Len(ontologies) : ontologies[i] \in DOMAIN clean_graphs
               /\ dst' = max_dst[ontologies[oi]]
               /\ CategoryUntouched(ontologies[oi]) ]_vars

\* C21 witness: the Leaf Pruner of the second category starts; the Outer-Layer
\* Pruner deleted a node of each category and lowered the dst value of the second.
StepOrderWitness ==
    /\ pc = "prune_leafs"
    /\ oi = 2
    /\ \A o \in {1, 2} : subgraphs[o] \ clean_graphs[o].nodes # {}
    /\ \E n \in subgraphs[2] : Layer_of[2][n] > max_dst[2]

\* the step is a traversal of the Boundary Marker that ends without the signal
TraversalReturns == TraversalStep /\ pc' = "mark"

\* C22: a Boundary Marker traversal that ends without the signal selects a node
\* that is the start or an ancestor of it, whose layer is the greatest among the
\* start and the nodes visited; it selects the start itself when no visited node
\* has a strictly greater layer.
FarthestIsMaxLayer ==
    [][ TraversalReturns =>
            LET o == ontologies[oi]
                seen == ReachUp(graph, {node'})
            IN  /\ farthest_node' \in seen
                /\ \A n \in seen : Layer_of[o][n] <= Layer_of[o][farthest_node']
                /\ (\A n \in seen : Layer_of[o][n] <= Layer_of[o][node']) =>
                       farthest_node' = node' ]_vars

\* C22 witness: one traversal selected an ancestor of a greater layer than its
\* start, although the start has another ancestor of its own layer.
FarthestIsMaxLayerWitness ==
    /\ pc = "mark"
    /\ node \in graph.nodes
    /\ farthest_node \in ReachUp(graph, {node}) \ {node}
    /\ Layer_of[ontologies[oi]][farthest_node] > Layer_of[ontologies[oi]][node]
    /\ \E n \in ReachUp(graph, {node}) \ {node} :
           Layer_of[ontologies[oi]][n] = Layer_of[ontologies[oi]][node]

\* node n has the layer of o and an annotation that is not "pruchozi": a list of
\* identifiers or "lowest"
Eligible(o, n) == HasLayer(o, n) /\ n \in DOMAIN UniprotID /\ UniprotID[n] # Pruchozi
\* position of node n in the list
Pos(seq, n) == CHOOSE i \in 1..Len(seq) : seq[i] = n

\* C23 (amended): the Boundary Marker starts a traversal from every node that, when
\* the loop over the nodes reaches it, carries the layer of the category and an
\* annotation other than the transit sentinel, a real one or a boundary sentinel
\* written before, and from no other node: a node with the transit sentinel, a
\* node with no annotation and a node without the layer of the category is never
\* a traversal start.
StartsAreAnnotated ==
    [][ pc = "mark" =>
            IF TraversalStep
            THEN /\ InSeq(node', todo)
                 /\ Eligible(ontologies[oi], node')
                 /\ \A j \in 1..(Pos(todo, node') - 1) : ~Eligible(ontologies[oi], todo[j])
                 /\ pc' = "mark" => todo' = SubSeq(todo, Pos(todo, node') + 1, Len(todo))
            ELSE \A j \in 1..Len(todo) : ~Eligible(ontologies[oi], todo[j]) ]_vars

\* C23 witness: a traversal has started from a node that carries the boundary
\* sentinel, while a node with the transit sentinel and a node with no annotation
\* were passed over.
StartsAreAnnotatedWitness ==
    /\ pc = "mark"
    /\ IsLowest(node)
    /\ ~InSeq(node, todo)
    /\ \E n \in graph.nodes : IsPruchozi(n) /\ ~InSeq(n, todo)
    /\ \E n \in graph.nodes : ~HasUniprot(n) /\ ~InSeq(n, todo)

\* C23 as stated: every traversal of the Boundary Marker starts from a node with a
\* real annotation.
StartsAreReal == [][ TraversalStep => IsReal(node') ]_vars

\* the neighbours that the pop of the last node of removable promotes to leaves
Promoted(o) ==
    LET g == clean_graphs[o]
    IN  {p \in Parents(g, Last(removable)) :
            InDegree(g, p) > 1 =>
                (~InSeq(p, leaves[o]) /\ Children(g, p) \subseteq SeqSet(removable))}
\* the promoted neighbours whose layer is at least the current dst
PromotedFar(o) == {p \in Promoted(o) : Layer_of[o][p] >= dst}

\* C24: the distance rule of the Leaf Pruner: a pass starts with the flag unset;
\* within a pass dst never decreases; a pop that promotes a neighbour of a layer
\* >= dst sets the flag and leaves dst at the greatest layer of these neighbours,
\* and a pop that promotes none leaves both as they are; when the queue is empty,
\* dst is decremented by exactly one if the flag was never set and kept otherwise.
DistanceRule ==
    [][ /\ (pc = "leaf_collect" /\ pc' = "leaf_pop") => (~updated' /\ dst' = dst)
        /\ (pc = "leaf_pop" /\ removable # <<>>) =>
               LET o == ontologies[oi]
               IN  /\ dst' >= dst
                   /\ updated' = (updated \/ PromotedFar(o) # {})
                   /\ dst' = IF PromotedFar(o) = {} THEN dst
                             ELSE MaxLayer(o, PromotedFar(o))
        /\ (pc = "leaf_pop" /\ removable = <<>>) =>
               dst' = IF updated THEN dst ELSE dst - 1 ]_vars

\* C24 witness: a pass of the Leaf Pruner is about to return with the flag set and
\* a dst that a promoted neighbour raised above the layer of a node the pass deleted.
DistanceRuleWitness ==
    /\ pc = "leaf_pop"
    /\ removable = <<>>
    /\ updated
    /\ \E n \in subgraphs[ontologies[oi]] \ clean_graphs[ontologies[oi]].nodes :
           Layer_of[ontologies[oi]][n] < dst

\* positions of the orchestrator inside the Leaf Pruner of one category
LeafPrunerPcs == {"leaf_collect", "leaf_pop"}
\* a measure of what the Leaf Pruner of the category has left to do: the nodes of
\* the working graph first, then dst, then the position within a pass
Variant ==
    LET phase == IF pc = "leaf_collect" THEN 2 ELSE IF updated THEN 3 ELSE 1
    IN  Cardinality(clean_graphs[ontologies[oi]].nodes) * (3 * MaxNode + 9) + 3 * dst + phase

\* C25: the Leaf Pruner terminates: every step inside the Leaf Pruner of a
\* category lowers a measure that is a natural number, so that no category has
\* infinitely many passes although dst may be raised; dst is never negative nor
\* greater than the number of terms, and the loop of passes is left with dst = 0.
LeafPrunerTerminates ==
    [][ /\ pc \in LeafPrunerPcs => (dst >= 0 /\ dst <= MaxNode /\ Variant >= 0)
        /\ (pc \in LeafPrunerPcs /\ pc' \in LeafPrunerPcs) => Variant' < Variant
        /\ (pc \in LeafPrunerPcs /\ pc' \notin LeafPrunerPcs) => dst = 0 ]_vars

\* C25 witness: the Leaf Pruner of the last category is about to end with dst = 0,
\* after a pass that deleted a leaf and promoted a parent of a greater layer, which
\* raised dst.
LeafPrunerTerminatesWitness ==
    /\ pc = "leaf_collect"
    /\ dst = 0
    /\ oi = Len(ontologies)
    /\ LET o == ontologies[oi]
           w == CleanCopy(graph, subgraphs[o])
       IN  \E n \in w.nodes \ clean_graphs[o].nodes :
               /\ Layer_of[o][n] <= max_dst[o]
               /\ \E p \in Parents(w, n) : InDegree(w, p) = 1 /\ Layer_of[o][p] > Layer_of[o][n]

\* the nodes of the layer that the Outer-Layer Pruner is scanning or deleting
LayerNodes ==
    {n \in clean_graphs[ontologies[oi]].nodes :
        HasLayer(ontologies[oi], n) /\ Layer_of[ontologies[oi]][n] = dst}

\* C26: in the Outer-Layer Pruner the annotation checks of one layer, which worker
\* threads run in any order, only read the graph; no node is deleted while a
\* check may still run, and a node is deleted only after the checks of all nodes
\* of its layer have finished; whatever the order of the workers, the layer
\* stops the pruner exactly when a sequential scan finds a node with an
\* annotation; the deletions are steps of the pruning thread, one node each.
ScanJoinsBeforeDeleting ==
    [][ /\ pc = "layer_workers" =>
               /\ UNCHANGED <<graph, clean_graphs, UniprotID, Layer_of, leaves>>
               /\ pc' # "layer_workers" =>
                      /\ DOMAIN results = LayerNodes
                      /\ (pc' \in {"prune_layers", "prune_leafs"}) =
                             (\E n \in LayerNodes : HasUniprot(n))
                      /\ pc' \in {"prune_layers", "prune_leafs"} =>
                             max_dst'[ontologies[oi]] = dst
        /\ pc = "layer_remove" =>
               /\ SeqSet(todo) \subseteq DOMAIN results
               /\ \A n \in DOMAIN results : ~results[n]
               /\ clean_graphs'[ontologies[oi]].nodes =
                      clean_graphs[ontologies[oi]].nodes \ {Head(todo)} ]_vars

\* C26 witness: of a layer of two nodes, the worker of the second node has
\* finished before the worker of the first one; the second node carries an
\* annotation and the first one does not.
ScanJoinsBeforeDeletingWitness ==
    /\ pc = "layer_workers"
    /\ Len(todo) = 2
    /\ DOMAIN results = {todo[2]}
    /\ results[todo[2]]
    /\ ~HasUniprot(todo[1])

\* the step is the return of the Outer-Layer Pruner of the category
OuterReturns == pc \in {"layer_scan", "layer_workers"} /\ pc' \in {"prune_layers", "prune_leafs"}
\* the leaf list the oracle gave for o is exactly the childless nodes of the
\* working graph that get_clean_graph built for o
InitialLeavesExact(o) == CleanCopy(graph, subgraphs[o]).nodes = subgraphs[o]

\* C27: the leaf list of the Outer-Layer Pruner: the deletion of a node adds to
\* the list only neighbours of that node, in either direction, that are not in
\* the list and whose every child has a greater layer than their own, and takes
\* the deleted node out of the list; when the pruner returns, for an initial list
\* of exactly the childless nodes of the working graph, the list holds no deleted
\* node, every node in it was an initial leaf or is a neighbour of a deleted node
\* without a child of the same or a lower layer, and every node of the pruned
\* graph that is left without children is in the list.
LeafFrontierRederived ==
    [][ LET o == ontologies[oi]
            g == clean_graphs[o]
            w == CleanCopy(graph, subgraphs[o])
        IN  /\ pc = "layer_remove" =>
                   LET d == Head(todo)
                   IN  /\ ~InSeq(d, leaves'[o])
                       /\ SeqSet(leaves[o]) \ {d} \subseteq SeqSet(leaves'[o])
                       /\ \A n \in SeqSet(leaves'[o]) \ SeqSet(leaves[o]) :
                              /\ n \in Parents(g, d) \cup Children(g, d)
                              /\ \A c \in Children(g, n) : Layer_of[o][c] > Layer_of[o][n]
            /\ (OuterReturns /\ InitialLeavesExact(o)) =>
                   /\ SeqSet(leaves[o]) \subseteq g.nodes
                   /\ \A n \in SeqSet(leaves[o]) :
                          \/ Children(w, n) = {}
                          \/ /\ \E d \in w.nodes \ g.nodes : n \in Parents(w, d) \cup Children(w, d)
                             /\ \A c \in Children(w, n) : Layer_of[o][c] > Layer_of[o][n]
                   /\ \A n \in g.nodes : Children(g, n) = {} => InSeq(n, leaves[o]) ]_vars

\* C27 witness: the Outer-Layer Pruner has returned for the only category; it
\* deleted a node, and the leaf list holds a node that was no initial leaf as
\* well as an initial leaf.
LeafFrontierRederivedWitness ==
    /\ pc = "prune_leafs"
    /\ oi = 1
    /\ Len(ontologies) = 1
    /\ InitialLeavesExact(ontologies[1])
    /\ subgraphs[ontologies[1]] \ clean_graphs[ontologies[1]].nodes # {}
    /\ \E n \in SeqSet(leaves[ontologies[1]]) : Children(graph, n) # {}
    /\ \E n \in SeqSet(leaves[ontologies[1]]) : Children(graph, n) = {}

\* the list holds no node twice
NoDuplicates(seq) == \A i, j \in 1..Len(seq) : seq[i] = seq[j] => i = j

\* C28: after the Leaf Pruner has finished a category, the leaf list of the
\* category holds no node twice and only nodes of the cleaned graph.
FinalLeavesCleanAndPresent ==
    Done => \A o \in DOMAIN clean_graphs :
                /\ NoDuplicates(leaves[o])
                /\ SeqSet(leaves[o]) \subseteq clean_graphs[o].nodes

\* C29: in every run of process_cleaning, also after a repair, the list of roots
\* it returns is exactly the set of keys of the cleaned graphs and of the max
\* layers it returns.
ReturnedRootsAreKeys ==
    Done => /\ SeqSet(pivots) = DOMAIN clean_graphs
            /\ SeqSet(pivots) = DOMAIN max_dst

\* the start s followed by the nodes that the traversal from s visits, in order
Visited(s) == <<s>> \o EdgeDfs(graph, <<s>>, {s}, <<>>)
\* the first node of the greatest layer of o among the start s and the nodes that
\* the traversal from s visits
FirstOfMaxLayer(o, s) ==
    LET seq == Visited(s)
        i == CHOOSE k \in 1..Len(seq) :
                 /\ \A j \in 1..Len(seq) : Layer_of[o][seq[j]] <= Layer_of[o][seq[k]]
                 /\ \A j \in 1..(k - 1) : Layer_of[o][seq[j]] < Layer_of[o][seq[k]]
    IN  seq[i]
\* the nodes that the Boundary Marker of the attempt marks on a graph that carries
\* the annotations of the Annotation Mapper and no mark
FreshMarks ==
    {FirstOfMaxLayer(ontologies[i], s) :
        <<i, s>> \in {x \in (1..Len(ontologies)) \X graph.nodes :
                         IsReal(x[2]) /\ HasLayer(ontologies[x[1]], x[2])}}
    \ {n \in graph.nodes : HasUniprot(n) /\ ~IsLowest(n)}

\* C30: when an attempt ends with the disconnection signal, the graph handed to
\* the restarted attempt carries no boundary sentinel of the failed attempt, and
\* the marks present at Done are exactly those that the Boundary Marker of the
\* final attempt writes on a graph never marked.
RestartIsUnmarked ==
    /\ (pc = "map" /\ depth >= 1) => \A n \in graph.nodes : ~IsLowest(n)
    /\ Done => {n \in graph.nodes : IsLowest(n)} = FreshMarks

\* C31: the working copy that get_clean_graph builds for a category has, before
\* any deletion, exactly the nodes of the reachable set that the oracle gave for
\* the category, a node without an edge inside the set included.
WorkingCopyIsReachableSet ==
    [][ pc = "prune_layers" =>
            clean_graphs'[ontologies[oi]].nodes = subgraphs[ontologies[oi]] ]_vars

\* C32: the Leaf Pruner never deletes a node of layer 0: no pass of the Leaf
\* Pruner runs at dst = 0, a step of the Leaf Pruner of a category deletes only
\* nodes of a layer of at least 1, and the root that is in the working graph when
\* the Leaf Pruner starts is in it when the Leaf Pruner returns, annotated or not.
LeafPrunerKeepsRoot ==
    [][ (pc \in {"prune_leafs", "leaf_collect", "leaf_pop"}) =>
            LET o == ontologies[oi]
            IN  /\ pc = "leaf_pop" => dst >= 1
                /\ \A n \in clean_graphs[o].nodes \ clean_graphs'[o].nodes :
                       Layer_of[o][n] >= 1
                /\ o \in clean_graphs[o].nodes => (o \in clean_graphs'[o].nodes) ]_vars

\* C32 witness: the Leaf Pruner is done with the last category; it deleted a child
\* of the root, of layer 1, and the root, which carries no annotation, is in the
\* cleaned graph.
LeafPrunerKeepsRootWitness ==
    /\ Done
    /\ LET o == ontologies[Len(ontologies)]
       IN  /\ o \in clean_graphs[o].nodes
           /\ ~HasUniprot(o)
           /\ max_dst[o] >= 1
           /\ \E n \in subgraphs[o] \ clean_graphs[o].nodes :
                  Layer_of[o][n] = 1 /\ o \in Parents(graph, n)


\* C33: when Repair has fired, no box of a graph that generate_graphviz has
\* expanded belongs to the connector node of connect_pivot.
ConnectorNotRendered ==
    \A o \in DOMAIN output_graphs : \A x \in output_graphs[o].nodes : x[2] # Conn

\* a step of check_mapping_status: a 200 response with results ends the call with
\* the status at once; a 200 response without results that arrives when
\* max_wait_time has elapsed ends it with None; every response that is not a 200
\* response, and every network error, adds one to the count of failed checks,
\* nothing else changes the count, and the call ends with None as soon as the
\* count exceeds max_retries
MappingStep ==
    /\ (rpc = "response" /\ IsOk(response) /\ HasResults(response))
           => (rpc' = "returned" /\ outcome' = "status")
    /\ (rpc = "response" /\ IsOk(response) /\ ~HasResults(response)
            /\ now >= max_wait_time)
           => (rpc' = "returned" /\ outcome' = "None")
    /\ (rpc = "response" /\ ~IsOk(response)) => retry_cnt' = retry_cnt + 1
    /\ (rpc = "response" /\ IsOk(response)) => retry_cnt' = retry_cnt
    /\ (rpc = "request") => retry_cnt' = retry_cnt
    /\ (retry_cnt' > max_retries) => (rpc' = "returned" /\ outcome' = "None")

\* the ways check_mapping_status ends, and the bound on the failed checks
MappingEnds ==
    /\ retry_cnt <= max_retries + 1
    /\ (rpc # "returned") => outcome = "none"
    /\ (rpc = "returned") =>
           \/ outcome = "status" /\ IsOk(response) /\ HasResults(response)
           \/ outcome = "None" /\ ~IsOk(response) /\ retry_cnt > max_retries
           \/ outcome = "None" /\ IsOk(response) /\ ~HasResults(response)
                  /\ now >= max_wait_time

Answered(r) == ~r.err /\ r.status_code < 400

\* a step of poll_job: a COMPLETE status ends the call with the job data, an ERROR
\* status with RuntimeError, a failed request or an HTTP error status with that
\* exception; after any other status, RATELIMIT included, the loop goes on with
\* the attempt spent
PollStep ==
    /\ (rpc = "response" /\ Answered(response) /\ response.body = "COMPLETE")
           => (rpc' = "returned" /\ outcome' = "data")
    /\ (rpc = "response" /\ Answered(response) /\ response.body = "ERROR")
           => (rpc' = "raised" /\ outcome' = "RuntimeError")
    /\ (rpc = "response" /\ ~Answered(response))
           => (rpc' = "raised" /\ outcome' \in {"RequestException", "HTTPError"})
    /\ (rpc = "response" /\ Answered(response)
            /\ response.body \notin {"COMPLETE", "ERROR"})
           => (rpc' = "request" /\ attempt' = attempt /\ sent' = sent)
    /\ (rpc = "request" /\ attempt = max_attempts)
           => (rpc' = "raised" /\ outcome' = "TimeoutError")

\* the ways poll_job ends, and the bound on its requests
PollEnds ==
    /\ sent <= max_attempts
    /\ sent = attempt
    /\ (outcome # "none") <=> (rpc \in {"returned", "raised"})
    /\ (rpc = "returned") => outcome = "data"
    /\ (outcome = "data") => (Answered(response) /\ response.body = "COMPLETE")
    /\ (outcome = "RuntimeError") => (Answered(response) /\ response.body = "ERROR")
    /\ (outcome = "TimeoutError") =>
           /\ sent = max_attempts
           /\ sent > 0 => (Answered(response)
                              /\ response.body \notin {"COMPLETE", "ERROR"})
    /\ (outcome \in {"RequestException", "HTTPError"}) => ~Answered(response)

ElmStep ==
    /\ (rpc = "response" /\ IsOk(response))
           => (rpc' = "returned" /\ outcome' = "text")
    /\ (rpc = "response" /\ ~IsOk(response) /\ attempt < max_attempts)
           => (rpc' = "request" /\ outcome' = "none" /\ sent' = sent)
    /\ (rpc = "response" /\ ~IsOk(response) /\ attempt = max_attempts)
           => \/ rpc' = "raised" /\ outcome' = "RuntimeError"
              \/ rpc' = "request" /\ outcome' = "none"
    /\ (rpc = "request" /\ attempt = max_attempts)
           => (rpc' = "raised" /\ outcome' = "RuntimeError")

\* the ways submit_elm ends, and the bound on its requests
ElmEnds ==
    /\ sent <= max_attempts
    /\ sent = attempt
    /\ outcome \in {"none", "text", "RuntimeError"}
    /\ (rpc = "returned") <=> (outcome = "text")
    /\ (rpc = "raised") <=> (outcome = "RuntimeError")
    /\ (outcome = "text") => IsOk(response)
    /\ (outcome = "RuntimeError") => (sent = max_attempts /\ ~IsOk(response))

\* C36: submit_elm sends at most max_attempts requests; it returns the body of the
\* first 200 response, tries again after a 429 response or a connection failure
\* while an attempt is left, raises RuntimeError when none of its max_attempts
\* requests brought a 200 response, and never returns without a 200 response.
SubmitElmBounded ==
    /\ [][ElmStep]_vars
    /\ []ElmEnds

\* C36 witness: submit_elm has raised RuntimeError after its last attempt, which
\* met a 429 response, and after a wait in an attempt before.
SubmitElmBoundedWitness ==
    /\ rpc = "raised"
    /\ outcome = "RuntimeError"
    /\ max_attempts >= 2
    /\ sent = max_attempts
    /\ ~response.err
    /\ response.status_code = 429
    /\ now >= 2 * delay

====
